---- MODULE Spec2Model ----
(***************************************************************************)
(* Task-parallel merge tree construction (MergeTree.cpp): precompute,      *)
(* leaf-task sweep, trunk and segmentation, and the tree-store operations. *)
(* Ids are 0-based as in the code: node i is nodes[i + 1] of the sequence  *)
(* that models the node store, arc a is superArcs[a + 1].                  *)
(***************************************************************************)
EXTENDS Integers, Sequences, FiniteSets, TLC

\* ------------------------------------------------------------------ bounds
\* number of meshes of MeshList given to build
MeshCount == 9
\* chunk sizes given by the chunk-size policy: 2 .. MaxChunkSize
MaxChunkSize == 3
\* number of tree-store calls made on the tree once build has returned
MaxCalls == 1

\* ------------------------------------------------------------- null values
nullVertex == -1
nullNodes == -1
nullSuperArc == -1
nullUF == -1
nullState == -1

\* --------------------------------------------------------------- helpers
Range(s) == {s[i] : i \in DOMAIN s}

Min2(a, b) == IF a < b THEN a ELSE b

Max2(a, b) == IF a < b THEN b ELSE a

Abs(a) == IF a < 0 THEN -a ELSE a

RECURSIVE SeqSum(_)
SeqSum(s) == IF s = <<>> THEN 0 ELSE Head(s) + SeqSum(Tail(s))

\* std::vector erase of the first element equal to x (Node::removeUpSuperArc ...)
RECURSIVE RemoveFirst(_, _)
RemoveFirst(s, x) ==
    IF s = <<>> THEN <<>>
    ELSE IF Head(s) = x THEN Tail(s)
    ELSE <<Head(s)>> \o RemoveFirst(Tail(s), x)

\* ----------------------------------------------------------------- meshes
\* A mesh (neighbour queries only) and its scalars: n vertices 0 .. n-1, the
\* edges, and the raw scalar of each vertex (sc[v + 1]); ties are broken by
\* vertex id.
MkInput(n, edges, sc) == [n |-> n, edges |-> edges, sc |-> sc]

MeshList ==
    << \* 1: two wells, the saddle is the highest vertex
       MkInput(3, {<<0, 1>>, <<1, 2>>}, <<0, 1, 0>>),
       \* 2: single minimum on a chain
       MkInput(5, {<<0, 1>>, <<1, 2>>, <<2, 3>>, <<3, 4>>}, <<3, 1, 2, 4, 5>>),
       \* 3: flat triangle
       MkInput(3, {<<0, 1>>, <<1, 2>>, <<0, 2>>}, <<1, 1, 1>>),
       \* 4: a cycle with two wells
       MkInput(4, {<<0, 1>>, <<1, 2>>, <<2, 3>>, <<0, 3>>}, <<0, 2, 1, 3>>),
       \* 5: an isolated vertex beside an edge
       MkInput(3, {<<1, 2>>}, <<1, 0, 2>>),
       \* 6: two wells, then a regular vertex with two lower neighbours
       MkInput(5, {<<0, 1>>, <<1, 2>>, <<1, 3>>, <<2, 3>>, <<3, 4>>}, <<0, 2, 1, 3, 4>>),
       \* 7: no vertex
       MkInput(0, {}, <<>>),
       \* 8: one vertex
       MkInput(1, {}, <<7>>),
       \* 9: two components with one well each
       MkInput(4, {<<0, 1>>, <<2, 3>>}, <<0, 2, 1, 3>>),
       \* 10: two wells on a chain, one with a slope above it
       MkInput(4, {<<0, 1>>, <<1, 2>>, <<2, 3>>}, <<0, 2, 1, 3>>) >>

\* meshes with three wells, given to build with a single precompute chunk
ThreeWellList ==
    << \* 1: the chain with scalars 0 2 1 3 0
       MkInput(5, {<<0, 1>>, <<1, 2>>, <<2, 3>>, <<3, 4>>}, <<0, 2, 1, 3, 0>>),
       \* 2: three fronts meeting on one saddle
       MkInput(4, {<<0, 3>>, <<1, 3>>, <<2, 3>>}, <<0, 1, 2, 3>>) >>

Adjacent(inp, u, v) == <<u, v>> \in inp.edges \/ <<v, u>> \in inp.edges

\* position of v in the ascending raw order, ties broken by id
MirrorOf(inp, v) ==
    Cardinality({u \in 0 .. inp.n - 1 :
                    \/ inp.sc[u + 1] < inp.sc[v + 1]
                    \/ (inp.sc[u + 1] = inp.sc[v + 1] /\ u < v)})

RECURSIVE AscendingSeq(_)
AscendingSeq(S) ==
    IF S = {} THEN <<>>
    ELSE LET m == CHOOSE x \in S : \A y \in S : x <= y
         IN <<m>> \o AscendingSeq(S \ {m})

\* Triangulation: getVertexNeighborNumber / getVertexNeighbor
MkMesh(inp) ==
    [v \in 0 .. inp.n - 1 |->
        AscendingSeq({u \in 0 .. inp.n - 1 : Adjacent(inp, u, v)})]

\* Scalars: size, sortedVertices, mirrorVertices
MkScalars(inp) ==
    [size |-> inp.n,
     mirrorVertices |-> [v \in 0 .. inp.n - 1 |-> MirrorOf(inp, v)],
     sortedVertices |-> [i \in 0 .. inp.n - 1 |->
                           CHOOSE v \in 0 .. inp.n - 1 : MirrorOf(inp, v) = i]]

\* ------------------------------------------------------------------ state
VARIABLES
    mesh_,       \* neighbour lists of the mesh
    scalars_,    \* size, sortedVertices, mirrorVertices
    treeType,    \* "Join" or "Split"
    chunkSize,   \* what getChunkSize returns
    phase,       \* position of the thread that runs build
    treeData_,   \* nodes, superArcs, roots, leaves, vert2tree, valences, ...
    uf,          \* the AtomicUF objects, by the vertex they were created on
    states,      \* the CurrentState objects, by the vertex they were created on
    task,        \* the leaf tasks, in launch order
    chunk,       \* the chunk tasks of the running data-parallel loop
    pendingVerts,\* trunk: the opened saddles in sweep order
    hist         \* what happened so far (observers, not program state)

vars == <<mesh_, scalars_, treeType, chunkSize, phase, treeData_, uf, states,
          task, chunk, pendingVerts, hist>>

input == <<mesh_, scalars_, treeType, chunkSize>>

Verts == 0 .. scalars_.size - 1

\* -------------------------------------------------------------- comparators
isLower(a, b) == scalars_.mirrorVertices[a] < scalars_.mirrorVertices[b]

isHigher(a, b) == scalars_.mirrorVertices[a] > scalars_.mirrorVertices[b]

isJT == treeType = "Join"

\* comp_.vertLower / comp_.vertHigher as build wires them
vertLower(a, b) == IF isJT THEN isLower(a, b) ELSE isHigher(a, b)

vertHigher(a, b) == IF isJT THEN isHigher(a, b) ELSE isLower(a, b)

getVertexNeighborNumber(v) == Len(mesh_[v])

getVertexNeighbor(v, n) == mesh_[v][n + 1]

\* chunk count of a range of nb elements
getChunkCount(nb) == 1 + (nb \div chunkSize)

\* ------------------------------------------------------------- tree store
\* vert2tree entries: nil, node (with the node id), arc (with the arc id)
nullCorresp == <<"nil", 0>>

isCorrespondingNull(td, v) == td.vert2tree[v][1] = "nil"

isCorrespondingNode(td, v) == td.vert2tree[v][1] = "node"

isCorrespondingArc(td, v) == td.vert2tree[v][1] = "arc"

getCorrespondingNodeId(td, v) == td.vert2tree[v][2]

getCorrespondingSuperArcId(td, v) == td.vert2tree[v][2]

updateCorrespondingArc(td, v, a) == [td EXCEPT !.vert2tree[v] = <<"arc", a>>]

updateCorrespondingNode(td, v, n) == [td EXCEPT !.vert2tree[v] = <<"node", n>>]

getNumberOfNodes(td) == Len(td.nodes)

getNumberOfSuperArcs(td) == Len(td.superArcs)

getNode(td, n) == td.nodes[n + 1]

getSuperArc(td, a) == td.superArcs[a + 1]

\* a default-constructed Node / SuperArc, as getNext() hands it out
NewNode == [vertexId |-> nullVertex, term |-> nullVertex, upArcs |-> <<>>, downArcs |-> <<>>]

NewSuperArc ==
    [downNodeId |-> nullNodes, upNodeId |-> nullNodes, lastVisited |-> nullVertex,
     nbSeen |-> 0, region |-> <<>>, replacant |-> nullSuperArc]

\* SuperArc::setLastVisited: records the vertex and counts it
setLastVisited(td, a, v) ==
    [td EXCEPT !.superArcs[a + 1].lastVisited = v, !.superArcs[a + 1].nbSeen = @ + 1]

\* SuperArc::atomicIncVisited
atomicIncVisited(td, a, nb) == [td EXCEPT !.superArcs[a + 1].nbSeen = @ + nb]

\* SuperArc::decrNbSeen
decrNbSeen(td, a) == [td EXCEPT !.superArcs[a + 1].nbSeen = @ - 1]

\* makeNode without the test of lines 904-906: a node is made on every call
makeNodeAlways(td, vertexId, term) ==
    IF vertexId < 0 \/ vertexId >= scalars_.size
    THEN [td |-> td, id |-> -1]
    ELSE LET newNodeId == Len(td.nodes)
             filled == [NewNode EXCEPT !.vertexId = vertexId, !.term = term]
         IN [td |-> updateCorrespondingNode(
                        [td EXCEPT !.nodes = Append(@, filled)], vertexId, newNodeId),
             id |-> newNodeId]

\* MergeTree::makeNode(idVertex, idVertex): the tree store after the call and
\* the id returned
makeNode(td, vertexId, term) ==
    IF vertexId < 0 \/ vertexId >= scalars_.size
    THEN [td |-> td, id |-> -1]
    ELSE IF isCorrespondingNode(td, vertexId)
    THEN [td |-> td, id |-> getCorrespondingNodeId(td, vertexId)]
    ELSE LET newNodeId == Len(td.nodes)
             filled == [NewNode EXCEPT !.vertexId = vertexId, !.term = term]
         IN [td |-> updateCorrespondingNode(
                        [td EXCEPT !.nodes = Append(@, filled)], vertexId, newNodeId),
             id |-> newNodeId]

\* MergeTree::openSuperArc
openSuperArc(td, downNodeId) ==
    IF downNodeId < 0 \/ downNodeId >= getNumberOfNodes(td)
    THEN [td |-> td, id |-> -2]
    ELSE LET newSuperArcId == Len(td.superArcs)
         IN [td |-> [td EXCEPT
                        !.superArcs = Append(@, [NewSuperArc EXCEPT !.downNodeId = downNodeId]),
                        !.nodes[downNodeId + 1].upArcs = Append(@, newSuperArcId)],
             id |-> newSuperArcId]

\* MergeTree::makeSuperArc
makeSuperArc(td, downNodeId, upNodeId) ==
    LET newSuperArcId == Len(td.superArcs)
        t1 == [td EXCEPT !.superArcs = Append(@, [NewSuperArc EXCEPT
                                            !.downNodeId = downNodeId,
                                            !.upNodeId = upNodeId])]
        t2 == [t1 EXCEPT !.nodes[downNodeId + 1].upArcs = Append(@, newSuperArcId)]
        t3 == [t2 EXCEPT !.nodes[upNodeId + 1].downArcs = Append(@, newSuperArcId)]
    IN [td |-> t3, id |-> newSuperArcId]

\* closeSuperArc that registers the arc in the up node only
closeSuperArcNoUp(td, superArcId, upNodeId) ==
    IF superArcId < 0 \/ superArcId >= getNumberOfSuperArcs(td) THEN td
    ELSE IF upNodeId < 0 \/ upNodeId >= getNumberOfNodes(td) THEN td
    ELSE [td EXCEPT !.nodes[upNodeId + 1].downArcs = Append(@, superArcId)]

\* closeSuperArc without the test of the up node (lines 841-844): the arc
\* takes the id given as its up node; the write to the node's list falls
\* outside the node store
closeSuperArcAnyNode(td, superArcId, upNodeId) ==
    IF superArcId < 0 \/ superArcId >= getNumberOfSuperArcs(td) THEN td
    ELSE IF upNodeId < 0 \/ upNodeId >= getNumberOfNodes(td)
    THEN [td EXCEPT !.superArcs[superArcId + 1].upNodeId = upNodeId]
    ELSE [td EXCEPT !.superArcs[superArcId + 1].upNodeId = upNodeId,
                    !.nodes[upNodeId + 1].downArcs = Append(@, superArcId)]

\* MergeTree::closeSuperArc
closeSuperArc(td, superArcId, upNodeId) ==
    IF superArcId < 0 \/ superArcId >= getNumberOfSuperArcs(td) THEN td
    ELSE IF upNodeId < 0 \/ upNodeId >= getNumberOfNodes(td) THEN td
    ELSE [td EXCEPT !.superArcs[superArcId + 1].upNodeId = upNodeId,
                    !.nodes[upNodeId + 1].downArcs = Append(@, superArcId)]

\* --------------------------------------------------------------- AtomicUF
NewUF(v) == [parent |-> v, openedArcs |-> <<>>, states |-> <<>>, extrema |-> v]

NoUF == [parent |-> nullUF, openedArcs |-> <<>>, states |-> <<>>, extrema |-> nullVertex]

\* AtomicUF::find: the representative ...
RECURSIVE find(_, _)
find(U, x) == IF U[x].parent = x THEN x ELSE find(U, U[x].parent)

\* ... and the parent links after the path compression of that call
RECURSIVE compress(_, _)
compress(U, x) ==
    IF U[x].parent = x THEN U
    ELSE [compress(U, U[x].parent) EXCEPT ![x].parent = find(U, x)]

\* AtomicUF::makeUnion: the earlier-in-sweep root goes under the later one,
\* which receives its opened arcs and states; [U, rep]
makeUnion(U, a, b) ==
    LET ra == find(U, a)
        rb == find(U, b)
        U1 == compress(compress(U, a), b)
        under == IF vertLower(U[ra].extrema, U[rb].extrema) THEN ra ELSE rb
        rep == IF under = ra THEN rb ELSE ra
    IN IF ra = rb THEN [U |-> U1, rep |-> ra]
       ELSE [U |-> [U1 EXCEPT
                       ![under].parent = rep,
                       ![under].openedArcs = <<>>,
                       ![under].states = <<>>,
                       ![rep].openedArcs = @ \o U1[under].openedArcs,
                       ![rep].states = @ \o U1[under].states],
             rep |-> rep]

\* ------------------------------------------------------------ CurrentState
\* the heap as a bag: how many times each vertex is in it
EmptyHeap == [v \in Verts |-> 0]

NewState(startVert) == [vertex |-> startVert, propagation |-> EmptyHeap, live |-> TRUE]

heapEmpty(h) == \A v \in Verts : h[v] = 0

\* top of the heap ordered by comp_.vertHigher: the sweep-minimum
heapTop(h) ==
    CHOOSE v \in Verts : h[v] > 0 /\ \A w \in Verts : h[w] > 0 => ~vertLower(w, v)

heapAdd(h, v) == [h EXCEPT ![v] = @ + 1]

heapPop(h) == [h EXCEPT ![heapTop(h)] = @ - 1]

heapMerge(h, g) == [v \in Verts |-> h[v] + g[v]]

\* AtomicUF::mergeStates on representative r: every state is merged into the
\* first one and deleted; [U, S]
RECURSIVE mergeInto(_, _, _)
mergeInto(S, first, others) ==
    IF others = <<>> THEN S
    ELSE LET o == Head(others)
             merged == heapMerge(S[first].propagation, S[o].propagation)
             S1 == [S EXCEPT ![first].propagation = merged,
                             ![o].live = FALSE,
                             ![o].propagation = EmptyHeap]
         IN mergeInto(S1, first, Tail(others))

mergeStates(U, S, r) ==
    IF U[r].states = <<>> THEN [U |-> U, S |-> S, ub |-> {"mergeStates on no state"}]
    ELSE [U |-> [U EXCEPT ![r].states = <<Head(@)>>],
          S |-> mergeInto(S, Head(U[r].states), Tail(U[r].states)),
          ub |-> {}]

\* ------------------------------------------------------ saddle closing
\* the neighbour loop of closeAndMergeOnSaddle (guarded = FALSE) and of
\* closeOnBackBone (guarded = TRUE), from neighbour n on; X = [td, U, ub]
RECURSIVE unionLower(_, _, _, _)
unionLower(X, saddleVert, n, guarded) ==
    IF n >= getVertexNeighborNumber(saddleVert) THEN X
    ELSE LET neigh == getVertexNeighbor(saddleVert, n)
             ufN == X.td.ufs[neigh]
             ufS == X.td.ufs[saddleVert]
         IN IF ~vertLower(neigh, saddleVert)
            THEN unionLower(X, saddleVert, n + 1, guarded)
            ELSE IF ufN = nullUF
            THEN IF guarded
                 THEN unionLower(X, saddleVert, n + 1, guarded)
                 ELSE unionLower([X EXCEPT !.ub = @ \cup {"ufs[neigh] is null in closeAndMergeOnSaddle"}],
                                 saddleVert, n + 1, guarded)
            ELSE IF ufS = nullUF
            THEN unionLower([X EXCEPT !.ub = @ \cup {"ufs[saddleVert] is null"}],
                            saddleVert, n + 1, guarded)
            ELSE IF find(X.U, ufN) # find(X.U, ufS)
            THEN LET m == makeUnion(X.U, ufS, ufN)
                 IN unionLower([X EXCEPT !.U = m.U, !.td.ufs[saddleVert] = m.rep],
                               saddleVert, n + 1, guarded)
            ELSE unionLower([X EXCEPT !.U = compress(compress(X.U, ufN), ufS)],
                            saddleVert, n + 1, guarded)

\* the loop of closeArcsUF over the opened arcs
RECURSIVE closeAll(_, _, _)
closeAll(td, arcs, closeNode) ==
    IF arcs = <<>> THEN td
    ELSE closeAll(closeSuperArc(td, Head(arcs), closeNode), Tail(arcs), closeNode)

\* closeArcsUF without clearOpenedArcs (line 469)
closeArcsUFKeep(X, closeNode, ufp) ==
    IF ufp = nullUF THEN [X EXCEPT !.ub = @ \cup {"closeArcsUF on a null uf"}]
    ELSE LET r == find(X.U, ufp)
         IN [X EXCEPT !.td = closeAll(X.td, X.U[r].openedArcs, closeNode),
                      !.U = compress(X.U, ufp)]

\* MergeTree::closeArcsUF; X = [td, U, ub]
closeArcsUF(X, closeNode, ufp) ==
    IF ufp = nullUF THEN [X EXCEPT !.ub = @ \cup {"closeArcsUF on a null uf"}]
    ELSE LET r == find(X.U, ufp)
         IN [X EXCEPT !.td = closeAll(X.td, X.U[r].openedArcs, closeNode),
                      !.U = [compress(X.U, ufp) EXCEPT ![r].openedArcs = <<>>]]

\* MergeTree::closeAndMergeOnSaddle; [td, U, S, ub]
closeAndMergeOnSaddle(td, U, S, saddleVert) ==
    LET mk == makeNode(td, saddleVert, nullVertex)
        X1 == unionLower([td |-> mk.td, U |-> U, ub |-> {}], saddleVert, 0, FALSE)
        X2 == closeArcsUF(X1, mk.id, X1.td.ufs[saddleVert])
        r == find(X2.U, X2.td.ufs[saddleVert])
        ms == mergeStates(X2.U, S, r)
    IN IF X2.td.ufs[saddleVert] = nullUF
       THEN [td |-> X2.td, U |-> X2.U, S |-> S, ub |-> X2.ub]
       ELSE [td |-> X2.td, U |-> [ms.U EXCEPT ![r].extrema = saddleVert], S |-> ms.S,
             ub |-> X2.ub \cup ms.ub]

\* MergeTree::closeOnBackBone; [td, U, ub]
closeOnBackBone(td, U, saddleVert) ==
    LET mk == makeNode(td, saddleVert, nullVertex)
        X1 == unionLower([td |-> mk.td, U |-> U, ub |-> {}], saddleVert, 0, TRUE)
    IN closeArcsUF(X1, mk.id, X1.td.ufs[saddleVert])

\* -------------------------------------------------------------------- Init
NoHist ==
    [ub |-> {},
     nbSaddle |-> [v \in Verts |-> 0],
     nbLast |-> [v \in Verts |-> 0],
     zeroHits |-> [v \in Verts |-> 0],
     zeroNotLast |-> FALSE,
     calls |-> 0,
     lastCall |-> <<"none">>,
     first |-> <<"none">>,
     merged |-> {},
     lateOpen |-> {}]

EmptyTreeData ==
    [nodes |-> <<>>, superArcs |-> <<>>, roots |-> <<>>, leaves |-> <<>>,
     vert2tree |-> [v \in Verts |-> nullCorresp],
     valences |-> [v \in Verts |-> 0],
     openedNodes |-> [v \in Verts |-> 0],
     ufs |-> [v \in Verts |-> nullUF],
     propagation |-> [v \in Verts |-> nullUF],
     activeTasks |-> 0,
     segments_ |-> <<>>,
     posSegm |-> <<>>]

\* the chunk tasks of a loop over [0, nb): each with the next index and its end
ChunksOf(nb) ==
    [c \in 0 .. getChunkCount(nb) - 1 |->
        [v |-> c * chunkSize, hi |-> Min2(nb, (c + 1) * chunkSize)]]

InitWith(inp, tt, cs) ==
    /\ mesh_ = MkMesh(inp)
    /\ scalars_ = MkScalars(inp)
    /\ treeType = tt
    /\ chunkSize = cs
    /\ phase = "precompute"
    /\ treeData_ = EmptyTreeData
    /\ uf = [v \in Verts |-> NoUF]
    /\ states = [v \in Verts |-> [vertex |-> nullVertex, propagation |-> EmptyHeap, live |-> FALSE]]
    /\ task = <<>>
    /\ chunk = ChunksOf(inp.n)
    /\ pendingVerts = <<>>
    /\ hist = NoHist

Init ==
    \E i \in 1 .. MeshCount, tt \in {"Join", "Split"}, cs \in 2 .. MaxChunkSize :
        InitWith(MeshList[i], tt, cs)

\* -------------------------------------------------------------- precompute
\* the count with the comparison turned round: the neighbours higher than v
RECURSIVE higherCount(_, _)
higherCount(v, n) ==
    IF n >= getVertexNeighborNumber(v) THEN 0
    ELSE (IF vertHigher(getVertexNeighbor(v, n), v) THEN 1 ELSE 0) + higherCount(v, n + 1)

\* number of neighbours of v lower in sweep order (the inner loop of precompute)
RECURSIVE lowerCount(_, _)
lowerCount(v, n) ==
    IF n >= getVertexNeighborNumber(v) THEN 0
    ELSE (IF vertLower(getVertexNeighbor(v, n), v) THEN 1 ELSE 0) + lowerCount(v, n + 1)

\* one vertex of one chunk task of precompute
PrecomputeVertex(c) ==
    /\ phase = "precompute"
    /\ chunk[c].v < chunk[c].hi
    /\ LET v == chunk[c].v
           val == lowerCount(v, 0)
           t1 == [treeData_ EXCEPT !.valences[v] = val]
       IN treeData_' = IF val = 0 THEN makeNode(t1, v, nullVertex).td ELSE t1
    /\ chunk' = [chunk EXCEPT ![c].v = @ + 1]
    /\ UNCHANGED <<input, phase, uf, states, task, pendingVerts, hist>>

\* std::sort of the leaves by the vertex of the node, in sweep order
RECURSIVE sortLeaves(_, _)
sortLeaves(td, S) ==
    IF S = {} THEN <<>>
    ELSE LET m == CHOOSE a \in S : \A b \in S :
                     ~vertLower(getNode(td, b).vertexId, getNode(td, a).vertexId)
         IN <<m>> \o sortLeaves(td, S \ {m})

\* after the taskwait of precompute: the leaves list is filled, and leaves()
\* runs up to its launch loop
PrecomputeEnd ==
    /\ phase = "precompute"
    /\ \A c \in DOMAIN chunk : chunk[c].v >= chunk[c].hi
    /\ LET nbLeaves == Len(treeData_.nodes)
           t1 == [treeData_ EXCEPT !.leaves = [i \in 1 .. nbLeaves |-> i - 1]]
       IN IF nbLeaves = 1
          THEN LET v == getNode(t1, 0).vertexId
               IN /\ treeData_' = [t1 EXCEPT !.openedNodes[v] = 1, !.ufs[v] = v]
                  /\ uf' = [uf EXCEPT ![v] = NewUF(v)]
                  /\ phase' = "trunk"
          ELSE /\ treeData_' = [t1 EXCEPT !.activeTasks = nbLeaves,
                                          !.leaves = sortLeaves(t1, 0 .. nbLeaves - 1)]
               /\ uf' = uf
               /\ phase' = "leaves"
    /\ UNCHANGED <<input, states, task, chunk, pendingVerts, hist>>

\* ------------------------------------------------------------------ leaves
NewTask(v) ==
    [pc |-> "start", startVert |-> v, d |-> 0, startUF |-> nullUF,
     currentState |-> nullState, seenFirst |-> FALSE, currentArc |-> nullSuperArc,
     currentVert |-> nullVertex, n |-> 0, becameSaddle |-> FALSE, decr |-> 0,
     curUFF |-> nullUF, isSaddle |-> FALSE, isLast |-> FALSE, outcome |-> "running"]

\* the task at pc, the locals of propage out of scope
Scoped(tk, pc) ==
    [tk EXCEPT !.pc = pc, !.n = 0, !.becameSaddle = FALSE, !.decr = 0,
               !.curUFF = nullUF, !.isSaddle = FALSE, !.isLast = FALSE]

\* the task returned: only where it ended and how are kept
Ended(tk, outcome) ==
    [NewTask(tk.startVert) EXCEPT !.pc = "done", !.outcome = outcome,
                                  !.currentVert = tk.currentVert, !.d = tk.d]

\* one turn of the launch loop of leaves(): the uf of the leaf, then its task
LaunchTask ==
    /\ phase = "leaves"
    /\ Len(task) < Len(treeData_.leaves)
    /\ LET l == treeData_.leaves[Len(task) + 1]
           v == getNode(treeData_, l).vertexId
       IN /\ treeData_' = [treeData_ EXCEPT !.ufs[v] = v]
          /\ uf' = [uf EXCEPT ![v] = NewUF(v)]
          /\ task' = Append(task, NewTask(v))
    /\ UNCHANGED <<input, phase, states, chunk, pendingVerts, hist>>

Tasks == 1 .. Len(task)

\* processTask, lines 240-260: the representative, its state, the arc opened
ProcessTaskStart(t) ==
    /\ task[t].pc = "start"
    /\ LET sv == task[t].startVert
           startUF == find(uf, treeData_.ufs[sv])
           U1 == compress(uf, treeData_.ufs[sv])
           fresh == U1[startUF].states = <<>>
           cs == IF fresh THEN sv ELSE Head(U1[startUF].states)
           S1 == IF fresh THEN [states EXCEPT ![cs] = NewState(sv)] ELSE states
           U2 == IF fresh THEN [U1 EXCEPT ![startUF].states = Append(@, cs)] ELSE U1
           S2 == [S1 EXCEPT ![cs].propagation = heapAdd(@, sv)]
           startNode == getCorrespondingNodeId(treeData_, sv)
           op == openSuperArc(treeData_, startNode)
       IN /\ states' = S2
          /\ uf' = [U2 EXCEPT ![startUF].openedArcs = Append(@, op.id)]
          /\ treeData_' = op.td
          /\ task' = [task EXCEPT ![t].pc = "loop", ![t].startUF = startUF,
                                  ![t].currentState = cs, ![t].seenFirst = FALSE,
                                  ![t].currentArc = op.id]
          /\ hist' = [hist EXCEPT !.ub = @ \cup
                        (IF S1[cs].live THEN {} ELSE {"deleted state used"})]
    /\ UNCHANGED <<input, phase, chunk, pendingVerts>>

\* processTask, lines 270-288 and 374: the loop test, the next vertex, the
\* duplicate filter, and the representative propage works with
ProcessTaskNext(t) ==
    /\ task[t].pc = "loop"
    /\ LET cs == task[t].currentState
           h == states[cs].propagation
       IN IF heapEmpty(h)
          THEN /\ task' = [task EXCEPT ![t].pc = "closeRoot"]
               /\ UNCHANGED <<states, uf>>
          ELSE LET cv == heapTop(h)
                   dup == \/ (~isCorrespondingNull(treeData_, cv) /\ ~isCorrespondingNode(treeData_, cv))
                          \/ (cv = task[t].startVert /\ task[t].seenFirst)
               IN /\ states' = [states EXCEPT ![cs].vertex = cv, ![cs].propagation = heapPop(h)]
                  /\ uf' = IF dup THEN uf ELSE compress(uf, task[t].startUF)
                  /\ task' = IF dup THEN [task EXCEPT ![t].currentVert = cv]
                             ELSE [task EXCEPT ![t].currentVert = cv,
                                               ![t].seenFirst = (@ \/ cv = task[t].startVert),
                                               ![t].pc = "propage", ![t].n = 0,
                                               ![t].becameSaddle = FALSE, ![t].decr = 0,
                                               ![t].curUFF = find(uf, task[t].startUF)]
    /\ UNCHANGED <<input, phase, treeData_, chunk, pendingVerts, hist>>

\* propage that counts in decr a lower neighbour whose ufs entry is empty
PropageNeighborCountsNull(t) ==
    /\ task[t].pc = "propage"
    /\ task[t].n < getVertexNeighborNumber(states[task[t].currentState].vertex)
    /\ LET cs == task[t].currentState
           vertex == states[cs].vertex
           neigh == getVertexNeighbor(vertex, task[t].n)
           curUFF == task[t].curUFF
           neighUF == treeData_.ufs[neigh]
           prop == treeData_.propagation[neigh]
       IN IF vertLower(neigh, vertex)
          THEN /\ IF neighUF = nullUF \/ find(uf, neighUF) # curUFF
                  THEN task' = [task EXCEPT ![t].n = @ + 1, ![t].becameSaddle = TRUE,
                                            ![t].decr = IF neighUF = nullUF THEN @ + 1 ELSE @]
                  ELSE task' = [task EXCEPT ![t].n = @ + 1, ![t].decr = @ + 1]
               /\ uf' = IF neighUF = nullUF THEN uf ELSE compress(uf, neighUF)
               /\ UNCHANGED <<states, treeData_>>
          ELSE /\ task' = [task EXCEPT ![t].n = @ + 1]
               /\ uf' = IF prop = nullUF THEN uf ELSE compress(uf, prop)
               /\ IF prop = nullUF \/ find(uf, prop) # curUFF
                  THEN /\ states' = [states EXCEPT ![cs].propagation = heapAdd(@, neigh)]
                       /\ treeData_' = [treeData_ EXCEPT !.propagation[neigh] = curUFF]
                  ELSE UNCHANGED <<states, treeData_>>
    /\ UNCHANGED <<input, phase, chunk, pendingVerts, hist>>

\* propage, lines 377-398: one neighbour of the current vertex
PropageNeighbor(t) ==
    /\ task[t].pc = "propage"
    /\ task[t].n < getVertexNeighborNumber(states[task[t].currentState].vertex)
    /\ LET cs == task[t].currentState
           vertex == states[cs].vertex
           neigh == getVertexNeighbor(vertex, task[t].n)
           curUFF == task[t].curUFF
           neighUF == treeData_.ufs[neigh]
           prop == treeData_.propagation[neigh]
       IN IF vertLower(neigh, vertex)
          THEN /\ IF neighUF = nullUF \/ find(uf, neighUF) # curUFF
                  THEN task' = [task EXCEPT ![t].n = @ + 1, ![t].becameSaddle = TRUE]
                  ELSE task' = [task EXCEPT ![t].n = @ + 1, ![t].decr = @ + 1]
               /\ uf' = IF neighUF = nullUF THEN uf ELSE compress(uf, neighUF)
               /\ UNCHANGED <<states, treeData_>>
          ELSE /\ task' = [task EXCEPT ![t].n = @ + 1]
               /\ uf' = IF prop = nullUF THEN uf ELSE compress(uf, prop)
               /\ IF prop = nullUF \/ find(uf, prop) # curUFF
                  THEN /\ states' = [states EXCEPT ![cs].propagation = heapAdd(@, neigh)]
                       /\ treeData_' = [treeData_ EXCEPT !.propagation[neigh] = curUFF]
                  ELSE UNCHANGED <<states, treeData_>>
    /\ UNCHANGED <<input, phase, chunk, pendingVerts, hist>>

\* a test that also takes an arrival that leaves other fronts to come
lastArrivalAtLeast(oldVal, decr) == oldVal >= decr

\* propage, lines 407-409: the arrival is the last one
lastArrival(oldVal, decr) == oldVal = decr

\* propage with the valence decremented by one for each arrival
PropageCaptureByOne(t) ==
    /\ task[t].pc = "propage"
    /\ task[t].n >= getVertexNeighborNumber(states[task[t].currentState].vertex)
    /\ LET vertex == states[task[t].currentState].vertex
           decr == task[t].decr
           oldVal == treeData_.valences[vertex]
           isLast == lastArrival(oldVal, decr)
       IN /\ treeData_' = [treeData_ EXCEPT !.valences[vertex] = @ - 1]
          /\ task' = [task EXCEPT ![t].pc = "publish", ![t].isSaddle = task[t].becameSaddle,
                                  ![t].isLast = isLast]
          /\ hist' = [hist EXCEPT
                 !.nbSaddle[vertex] = IF task[t].becameSaddle THEN @ + 1 ELSE @,
                 !.nbLast[vertex] = IF task[t].becameSaddle /\ isLast THEN @ + 1 ELSE @,
                 !.zeroHits[vertex] = IF oldVal # 0 /\ oldVal - 1 = 0 THEN @ + 1 ELSE @,
                 !.zeroNotLast = @ \/ (oldVal # 0 /\ oldVal - 1 = 0 /\ ~isLast)]
    /\ UNCHANGED <<input, phase, uf, states, chunk, pendingVerts>>

\* propage, lines 401-411: the atomic capture of the valence
PropageCapture(t) ==
    /\ task[t].pc = "propage"
    /\ task[t].n >= getVertexNeighborNumber(states[task[t].currentState].vertex)
    /\ LET vertex == states[task[t].currentState].vertex
           decr == task[t].decr
           oldVal == treeData_.valences[vertex]
           isLast == lastArrival(oldVal, decr)
       IN /\ treeData_' = [treeData_ EXCEPT !.valences[vertex] = @ - decr]
          /\ task' = [task EXCEPT ![t].pc = "publish", ![t].isSaddle = task[t].becameSaddle,
                                  ![t].isLast = isLast]
          /\ hist' = [hist EXCEPT
                 !.nbSaddle[vertex] = IF task[t].becameSaddle THEN @ + 1 ELSE @,
                 !.nbLast[vertex] = IF task[t].becameSaddle /\ isLast THEN @ + 1 ELSE @,
                 !.zeroHits[vertex] = IF oldVal # 0 /\ oldVal - decr = 0 THEN @ + 1 ELSE @,
                 !.zeroNotLast = @ \/ (oldVal # 0 /\ oldVal - decr = 0 /\ ~isLast)]
    /\ UNCHANGED <<input, phase, uf, states, chunk, pendingVerts>>

\* processTask, line 298: ufs[currentVert] = startUF
PublishUF(t) ==
    /\ task[t].pc = "publish"
    /\ treeData_' = [treeData_ EXCEPT !.ufs[task[t].currentVert] = task[t].startUF]
    /\ task' = [task EXCEPT ![t].pc = IF task[t].isSaddle THEN "saddle" ELSE "regular"]
    /\ UNCHANGED <<input, phase, uf, states, chunk, pendingVerts, hist>>

\* the regular case without the test currentVert != startVert
RegularVertexAlways(t) ==
    /\ task[t].pc = "regular"
    /\ LET cv == task[t].currentVert
           t1 == updateCorrespondingArc(treeData_, cv, task[t].currentArc)
       IN treeData_' = setLastVisited(t1, task[t].currentArc, cv)
    /\ task' = [task EXCEPT ![t] = Scoped(@, "loop")]
    /\ UNCHANGED <<input, phase, uf, states, chunk, pendingVerts, hist>>

\* processTask, lines 344-347: a regular vertex goes to the current arc
RegularVertex(t) ==
    /\ task[t].pc = "regular"
    /\ LET cv == task[t].currentVert
           t1 == IF cv # task[t].startVert
                 THEN updateCorrespondingArc(treeData_, cv, task[t].currentArc)
                 ELSE treeData_
       IN treeData_' = setLastVisited(t1, task[t].currentArc, cv)
    /\ task' = [task EXCEPT ![t] = Scoped(@, "loop")]
    /\ UNCHANGED <<input, phase, uf, states, chunk, pendingVerts, hist>>

\* processTask, line 309: openedNodes[currentVert] = 1
OpenNode(t) ==
    /\ task[t].pc = "saddle"
    /\ treeData_' = [treeData_ EXCEPT !.openedNodes[task[t].currentVert] = 1]
    /\ task' = [task EXCEPT ![t].pc = IF task[t].isLast THEN "readActive" ELSE "decrActive"]
    /\ hist' = [hist EXCEPT !.lateOpen = @ \cup
                  (IF task[t].currentVert \in hist.merged
                      /\ treeData_.openedNodes[task[t].currentVert] = 0
                   THEN {task[t].currentVert} ELSE {})]
    /\ UNCHANGED <<input, phase, uf, states, chunk, pendingVerts>>

\* a last arrival that waits until it is the only task left
ReadActiveTasksWait(t) ==
    /\ task[t].pc = "readActive"
    /\ treeData_.activeTasks = 1
    /\ task' = [task EXCEPT ![t] = Ended(@, "trunk")]
    /\ UNCHANGED <<input, phase, treeData_, uf, states, chunk, pendingVerts, hist>>

\* the last arrival returns when at most one other task is left
ReadActiveTasksAtMostTwo(t) ==
    /\ task[t].pc = "readActive"
    /\ task' = IF treeData_.activeTasks <= 2
               THEN [task EXCEPT ![t] = Ended(@, "trunk")]
               ELSE [task EXCEPT ![t].pc = "merge"]
    /\ UNCHANGED <<input, phase, treeData_, uf, states, chunk, pendingVerts, hist>>

\* processTask, lines 316-322: the last arrival reads activeTasks
ReadActiveTasks(t) ==
    /\ task[t].pc = "readActive"
    /\ task' = IF treeData_.activeTasks = 1
               THEN [task EXCEPT ![t] = Ended(@, "trunk")]
               ELSE [task EXCEPT ![t].pc = "merge"]
    /\ UNCHANGED <<input, phase, treeData_, uf, states, chunk, pendingVerts, hist>>

\* processTask, line 325
CloseAndMerge(t) ==
    /\ task[t].pc = "merge"
    /\ LET r == closeAndMergeOnSaddle(treeData_, uf, states, task[t].currentVert)
       IN /\ treeData_' = r.td
          /\ uf' = r.U
          /\ states' = r.S
          /\ hist' = [hist EXCEPT !.ub = @ \cup r.ub,
                                   !.merged = @ \cup {task[t].currentVert}]
    /\ task' = [task EXCEPT ![t].pc = "clearOpen"]
    /\ UNCHANGED <<input, phase, chunk, pendingVerts>>

\* processTask, lines 328-333: openedNodes[currentVert] = 0, then the task
\* goes on from the saddle
ContinueFromSaddle(t) ==
    /\ task[t].pc = "clearOpen"
    /\ treeData_' = [treeData_ EXCEPT !.openedNodes[task[t].currentVert] = 0]
    /\ task' = [task EXCEPT ![t] = [NewTask(@.currentVert) EXCEPT !.d = task[t].d + 1]]
    /\ UNCHANGED <<input, phase, uf, states, chunk, pendingVerts, hist>>

\* processTask, lines 335-341: not the last arrival
StopAtSaddle(t) ==
    /\ task[t].pc = "decrActive"
    /\ treeData_' = [treeData_ EXCEPT !.activeTasks = @ - 1]
    /\ task' = [task EXCEPT ![t] = Ended(@, "stopped")]
    /\ UNCHANGED <<input, phase, uf, states, chunk, pendingVerts, hist>>

\* the close of the root on the vertex the task started from
CloseRootOnStart(t) ==
    /\ task[t].pc = "closeRoot"
    /\ LET a == task[t].currentArc
           closeVert == task[t].startVert
       IN IF closeVert = nullVertex
          THEN /\ hist' = [hist EXCEPT !.ub = @ \cup {"close root without a visited vertex"}]
               /\ treeData_' = treeData_
          ELSE /\ LET mk == IF isCorrespondingNode(treeData_, closeVert)
                            THEN [td |-> treeData_,
                                  id |-> getCorrespondingNodeId(treeData_, closeVert)]
                            ELSE makeNode(treeData_, closeVert, nullVertex)
                      t1 == decrNbSeen(closeSuperArc(mk.td, a, mk.id), a)
                  IN treeData_' = [t1 EXCEPT !.roots = Append(@, mk.id)]
               /\ hist' = hist
    /\ task' = [task EXCEPT ![t] = Ended(@, "root")]
    /\ UNCHANGED <<input, phase, uf, states, chunk, pendingVerts>>

\* the close of the root without decrNbSeen (line 358)
CloseRootNoDecr(t) ==
    /\ task[t].pc = "closeRoot"
    /\ LET a == task[t].currentArc
           closeVert == getSuperArc(treeData_, a).lastVisited
       IN IF closeVert = nullVertex
          THEN /\ hist' = [hist EXCEPT !.ub = @ \cup {"close root without a visited vertex"}]
               /\ treeData_' = treeData_
          ELSE /\ LET mk == IF isCorrespondingNode(treeData_, closeVert)
                            THEN [td |-> treeData_,
                                  id |-> getCorrespondingNodeId(treeData_, closeVert)]
                            ELSE makeNode(treeData_, closeVert, nullVertex)
                      t1 == closeSuperArc(mk.td, a, mk.id)
                  IN treeData_' = [t1 EXCEPT !.roots = Append(@, mk.id)]
               /\ hist' = hist
    /\ task' = [task EXCEPT ![t] = Ended(@, "root")]
    /\ UNCHANGED <<input, phase, uf, states, chunk, pendingVerts>>

\* processTask, lines 354-360: the queue is drained, the arc is closed on a root
CloseRoot(t) ==
    /\ task[t].pc = "closeRoot"
    /\ LET a == task[t].currentArc
           closeVert == getSuperArc(treeData_, a).lastVisited
       IN IF closeVert = nullVertex
          THEN /\ hist' = [hist EXCEPT !.ub = @ \cup {"close root without a visited vertex"}]
               /\ treeData_' = treeData_
          ELSE /\ LET mk == IF isCorrespondingNode(treeData_, closeVert)
                            THEN [td |-> treeData_,
                                  id |-> getCorrespondingNodeId(treeData_, closeVert)]
                            ELSE makeNode(treeData_, closeVert, nullVertex)
                      t1 == decrNbSeen(closeSuperArc(mk.td, a, mk.id), a)
                  IN treeData_' = [t1 EXCEPT !.roots = Append(@, mk.id)]
               /\ hist' = hist
    /\ task' = [task EXCEPT ![t] = Ended(@, "root")]
    /\ UNCHANGED <<input, phase, uf, states, chunk, pendingVerts>>

\* the taskwait that ends leaves()
LeavesEnd ==
    /\ phase = "leaves"
    /\ Len(task) = Len(treeData_.leaves)
    /\ \A t \in Tasks : task[t].pc = "done"
    /\ phase' = "trunk"
    /\ UNCHANGED <<input, treeData_, uf, states, task, chunk, pendingVerts, hist>>

\* ------------------------------------------------------------------- trunk
\* the sort with comp_.vertHigher: the pending vertices from the top down
RECURSIVE sortVertsDown(_)
sortVertsDown(S) ==
    IF S = {} THEN <<>>
    ELSE LET m == CHOOSE a \in S : \A b \in S : ~vertHigher(b, a)
         IN <<m>> \o sortVertsDown(S \ {m})

\* std::sort of a set of vertices with comp_.vertLower
RECURSIVE sortVerts(_)
sortVerts(S) ==
    IF S = {} THEN <<>>
    ELSE LET m == CHOOSE a \in S : \A b \in S : ~vertLower(b, a)
         IN <<m>> \o sortVerts(S \ {m})

\* trunk, lines 489-491; X = [td, U, ub]
RECURSIVE closeBackBones(_, _)
closeBackBones(X, verts) ==
    IF verts = <<>> THEN X
    ELSE LET r == closeOnBackBone(X.td, X.U, Head(verts))
         IN closeBackBones([td |-> r.td, U |-> r.U, ub |-> X.ub \cup r.ub], Tail(verts))

\* trunk, lines 497-502: the arcs between consecutive pending vertices, from n on
RECURSIVE backBoneArcs(_, _, _)
backBoneArcs(td, pv, n) ==
    IF n >= Len(pv) THEN td
    ELSE LET mk == makeSuperArc(td, getCorrespondingNodeId(td, pv[n]),
                                getCorrespondingNodeId(td, pv[n + 1]))
         IN backBoneArcs(setLastVisited(mk.td, mk.id, pv[n + 1]), pv, n + 1)

\* MergeTree::getBoundsFromVerts
getBoundsFromVerts(pv) ==
    IF isJT
    THEN [begin |-> scalars_.mirrorVertices[pv[1]], stop |-> scalars_.size]
    ELSE [begin |-> scalars_.mirrorVertices[pv[1]], stop |-> -1]

\* the chunk tasks of the trunk: position v in the sorted array, the bound
\* where the chunk ends, and the task's own lastVertInRange and acc
TrunkChunks(pv) ==
    LET b == getBoundsFromVerts(pv)
        sizeBackBone == Abs(b.stop - b.begin)
    IN [c \in 0 .. getChunkCount(sizeBackBone) - 1 |->
          IF isJT
          THEN [v |-> b.begin + c * chunkSize,
                hi |-> Min2(b.stop, b.begin + (c + 1) * chunkSize),
                lastVertInRange |-> 0, acc |-> 0, flushed |-> FALSE]
          ELSE [v |-> b.begin - c * chunkSize,
                hi |-> Max2(b.stop, b.begin - (c + 1) * chunkSize),
                lastVertInRange |-> 0, acc |-> 0, flushed |-> FALSE]]

\* trunk without the return of lines 504-506: with no pending vertex the read
\* of pendingVerts[nbNodes - 1] is a read before the start of an empty list
TrunkBackBoneNoReturn ==
    /\ phase = "trunk"
    /\ LET pv == sortVerts({v \in Verts : treeData_.openedNodes[v] # 0})
           X == closeBackBones([td |-> treeData_, U |-> uf, ub |-> {}], pv)
           t1 == backBoneArcs(X.td, pv, 1)
       IN /\ pendingVerts' = pv
          /\ uf' = X.U
          /\ IF pv = <<>>
             THEN /\ treeData_' = t1
                  /\ hist' = [hist EXCEPT !.ub = @ \cup {"read before the start of pendingVerts"}]
                  /\ phase' = "segmentation"
                  /\ chunk' = chunk
             ELSE LET op == openSuperArc(t1, getCorrespondingNodeId(t1, pv[Len(pv)]))
                      top == scalars_.sortedVertices[IF isJT THEN scalars_.size - 1 ELSE 0]
                      mk == makeNode(op.td, top, nullVertex)
                      t2 == closeSuperArc(mk.td, op.id, mk.id)
                  IN /\ treeData_' = setLastVisited(t2, op.id, getNode(t2, mk.id).vertexId)
                     /\ hist' = [hist EXCEPT !.ub = @ \cup X.ub]
                     /\ phase' = "trunkChunks"
                     /\ chunk' = TrunkChunks(pv)
    /\ UNCHANGED <<input, states, task>>

\* trunk, lines 476-533: the sequential part
TrunkBackBone ==
    /\ phase = "trunk"
    /\ LET pv == sortVerts({v \in Verts : treeData_.openedNodes[v] # 0})
           X == closeBackBones([td |-> treeData_, U |-> uf, ub |-> {}], pv)
           t1 == backBoneArcs(X.td, pv, 1)
       IN /\ pendingVerts' = pv
          /\ uf' = X.U
          /\ hist' = [hist EXCEPT !.ub = @ \cup X.ub]
          /\ IF pv = <<>>
             THEN /\ treeData_' = t1
                  /\ phase' = "segmentation"
                  /\ chunk' = chunk
             ELSE LET op == openSuperArc(t1, getCorrespondingNodeId(t1, pv[Len(pv)]))
                      top == scalars_.sortedVertices[IF isJT THEN scalars_.size - 1 ELSE 0]
                      mk == makeNode(op.td, top, nullVertex)
                      t2 == closeSuperArc(mk.td, op.id, mk.id)
                  IN /\ treeData_' = setLastVisited(t2, op.id, getNode(t2, mk.id).vertexId)
                     /\ phase' = "trunkChunks"
                     /\ chunk' = TrunkChunks(pv)
    /\ UNCHANGED <<input, states, task>>

\* MergeTree::getVertInRange
RECURSIVE getVertInRange(_, _, _)
getVertInRange(range, v, last) ==
    IF last + 1 < Len(range) /\ vertLower(range[last + 2], v)
    THEN getVertInRange(range, v, last + 1)
    ELSE last

\* first up arc of the node on v (upArcFromVert, getUpSuperArcId(0));
\* nullSuperArc stands for the read past the end of an empty list
upArcFromVert(td, v) ==
    LET ups == getNode(td, getCorrespondingNodeId(td, v)).upArcs
    IN IF ups = <<>> THEN nullSuperArc ELSE ups[1]

\* assignChunkTrunk on position v of the sorted array, in chunk task c
TrunkChunkVertex(c) ==
    /\ phase = "trunkChunks"
    /\ IF isJT THEN chunk[c].v < chunk[c].hi ELSE chunk[c].v > chunk[c].hi
    /\ LET s == scalars_.sortedVertices[chunk[c].v]
           old == chunk[c].lastVertInRange
           new == getVertInRange(pendingVerts, s, old)
           thisArc == upArcFromVert(treeData_, pendingVerts[new + 1])
           oldArc == upArcFromVert(treeData_, pendingVerts[old + 1])
           t1 == updateCorrespondingArc(treeData_, s, thisArc)
           step == IF isJT THEN 1 ELSE -1
       IN IF isCorrespondingNull(treeData_, s)
          THEN /\ treeData_' = IF old = new THEN t1 ELSE atomicIncVisited(t1, oldArc, chunk[c].acc)
               /\ chunk' = [chunk EXCEPT ![c].v = @ + step, ![c].lastVertInRange = new,
                                         ![c].acc = IF old = new THEN @ + 1 ELSE 1]
               /\ hist' = [hist EXCEPT !.ub = @ \cup
                             (IF thisArc = nullSuperArc \/ oldArc = nullSuperArc
                              THEN {"up arc of a node without up arc"} ELSE {})]
          ELSE /\ chunk' = [chunk EXCEPT ![c].v = @ + step]
               /\ UNCHANGED <<treeData_, hist>>
    /\ UNCHANGED <<input, phase, uf, states, task, pendingVerts>>

\* trunk, lines 543-546 / 558-561: the chunk task adds what it accumulated
TrunkChunkFlush(c) ==
    /\ phase = "trunkChunks"
    /\ ~chunk[c].flushed
    /\ IF isJT THEN chunk[c].v >= chunk[c].hi ELSE chunk[c].v <= chunk[c].hi
    /\ LET upArc == upArcFromVert(treeData_, pendingVerts[chunk[c].lastVertInRange + 1])
       IN treeData_' = atomicIncVisited(treeData_, upArc, chunk[c].acc)
    /\ chunk' = [chunk EXCEPT ![c].flushed = TRUE]
    /\ UNCHANGED <<input, phase, uf, states, task, pendingVerts, hist>>

\* the taskwait that ends trunk()
TrunkEnd ==
    /\ phase = "trunkChunks"
    /\ \A c \in DOMAIN chunk : chunk[c].flushed
    /\ phase' = "segmentation"
    /\ UNCHANGED <<input, treeData_, uf, states, task, chunk, pendingVerts, hist>>

\* ------------------------------------------------------------ segmentation
\* buildSegmentation with segments of nbSeen vertices instead of nbSeen - 1
SegmentSizesFull ==
    /\ phase = "segmentation"
    /\ LET nbArcs == Len(treeData_.superArcs)
           sizes == [a \in 1 .. nbArcs |-> treeData_.superArcs[a].nbSeen]
       IN treeData_' = [treeData_ EXCEPT
              !.segments_ = [a \in 1 .. nbArcs |-> [i \in 1 .. sizes[a] |-> nullVertex]],
              !.posSegm = [a \in 1 .. nbArcs |-> 0]]
    /\ chunk' = ChunksOf(scalars_.size)
    /\ phase' = "fill"
    /\ UNCHANGED <<input, uf, states, task, pendingVerts, hist>>

\* buildSegmentation, lines 706-745: the size of each segment, then the
\* chunk tasks of the fill pass
SegmentSizes ==
    /\ phase = "segmentation"
    /\ LET nbArcs == Len(treeData_.superArcs)
           sizes == [a \in 1 .. nbArcs |-> Max2(0, treeData_.superArcs[a].nbSeen - 1)]
       IN treeData_' = [treeData_ EXCEPT
              !.segments_ = [a \in 1 .. nbArcs |-> [i \in 1 .. sizes[a] |-> nullVertex]],
              !.posSegm = [a \in 1 .. nbArcs |-> 0]]
    /\ chunk' = ChunksOf(scalars_.size)
    /\ phase' = "fill"
    /\ UNCHANGED <<input, uf, states, task, pendingVerts, hist>>

\* buildSegmentation, lines 752-762: one vertex of one chunk task
FillVertex(c) ==
    /\ phase = "fill"
    /\ chunk[c].v < chunk[c].hi
    /\ LET vert == scalars_.sortedVertices[chunk[c].v]
           sa == getCorrespondingSuperArcId(treeData_, vert)
           vertToAdd == treeData_.posSegm[sa + 1]
       IN IF isCorrespondingArc(treeData_, vert)
          THEN IF vertToAdd < Len(treeData_.segments_[sa + 1])
               THEN /\ treeData_' = [treeData_ EXCEPT
                                        !.posSegm[sa + 1] = @ + 1,
                                        !.segments_[sa + 1][vertToAdd + 1] = vert]
                    /\ hist' = hist
               ELSE /\ treeData_' = [treeData_ EXCEPT !.posSegm[sa + 1] = @ + 1]
                    /\ hist' = [hist EXCEPT !.ub = @ \cup {"write past the end of a segment"}]
          ELSE UNCHANGED <<treeData_, hist>>
    /\ chunk' = [chunk EXCEPT ![c].v = @ + 1]
    /\ UNCHANGED <<input, phase, uf, states, task, pendingVerts>>

\* Segments::sortAll: a segment in ascending order of the scalars
RECURSIVE sortSegment(_)
sortSegment(seg) ==
    IF seg = <<>> THEN <<>>
    ELSE LET key(x) == IF x = nullVertex THEN -1 ELSE scalars_.mirrorVertices[x]
             i == CHOOSE j \in DOMAIN seg : \A k \in DOMAIN seg : key(seg[j]) <= key(seg[k])
         IN <<seg[i]>> \o sortSegment(SubSeq(seg, 1, i - 1) \o SubSeq(seg, i + 1, Len(seg)))

\* buildSegmentation, lines 765-793: the segments are sorted and each becomes
\* the region of its arc
SegmentEnd ==
    /\ phase = "fill"
    /\ \A c \in DOMAIN chunk : chunk[c].v >= chunk[c].hi
    /\ LET sorted == [a \in DOMAIN treeData_.segments_ |-> sortSegment(treeData_.segments_[a])]
       IN treeData_' = [treeData_ EXCEPT
              !.segments_ = sorted,
              !.superArcs = [a \in DOMAIN @ |-> [@[a] EXCEPT !.region = @ \o sorted[a]]]]
    /\ phase' = "done"
    /\ UNCHANGED <<input, uf, states, task, chunk, pendingVerts, hist>>

\* ------------------------------------------- tree-store calls after build
\* MergeTree::makeNode(const Node *, idVertex): the term given is not passed on
makeNodeOfNode(td, vertexId, term) == makeNode(td, vertexId, nullVertex)

\* SuperArc::splitFront / splitBack: the part of the region of arc a that
\* stays below vertex v in sweep order, and the part above it
regionBelow(td, a, v) == SelectSeq(getSuperArc(td, a).region, LAMBDA x : vertLower(x, v))

regionAbove(td, a, v) == SelectSeq(getSuperArc(td, a).region, LAMBDA x : vertHigher(x, v))

\* the calls of insertNode that read only what exists: v is on a closed arc,
\* or carries a node that has an up arc
insertNodeDefined(td, v) ==
    \/ /\ isCorrespondingArc(td, v)
       /\ getSuperArc(td, getCorrespondingSuperArcId(td, v)).upNodeId # nullNodes
    \/ /\ isCorrespondingNode(td, v)
       /\ getNode(td, getCorrespondingNodeId(td, v)).upArcs # <<>>
       /\ LET up0 == getNode(td, getCorrespondingNodeId(td, v)).upArcs[1]
              rep == getSuperArc(td, up0).replacant
              c == IF rep = nullSuperArc THEN up0 ELSE rep
          IN getSuperArc(td, c).upNodeId # nullNodes

\* MergeTree::insertNode on a node whose vertex is v; [td, id]
insertNode(td, v, segm) ==
    LET myNode == getNode(td, getCorrespondingNodeId(td, v))
        up0 == myNode.upArcs[1]
        correspondingArcId == IF getSuperArc(td, up0).replacant = nullSuperArc
                              THEN up0 ELSE getSuperArc(td, up0).replacant
        t0 == IF isCorrespondingNode(td, v)
              THEN updateCorrespondingArc(td, v, correspondingArcId) ELSE td
        currentSA == getCorrespondingSuperArcId(t0, v)
        upNodeId == getSuperArc(t0, currentSA).upNodeId
        origin == getNode(t0, getSuperArc(t0, currentSA).downNodeId).term
        mk == makeNodeOfNode(t0, v, origin)
        newSA == makeSuperArc(mk.td, mk.id, upNodeId)
        t1 == [newSA.td EXCEPT !.superArcs[currentSA + 1].upNodeId = mk.id]
        t2 == [t1 EXCEPT !.nodes[upNodeId + 1].downArcs = RemoveFirst(@, currentSA)]
        t3 == [t2 EXCEPT !.nodes[mk.id + 1].downArcs = Append(@, currentSA)]
        t4 == [t3 EXCEPT !.superArcs[newSA.id + 1].region = @ \o regionAbove(t3, currentSA, v),
                         !.superArcs[currentSA + 1].region = regionBelow(t3, currentSA, v)]
    IN [td |-> IF segm THEN t4 ELSE t3, id |-> newSA.id]

\* a caller makes a node on v once build has returned
MakeNodeCall(v) ==
    /\ phase = "done"
    /\ hist.calls < MaxCalls
    /\ treeData_' = makeNode(treeData_, v, nullVertex).td
    /\ hist' = [hist EXCEPT !.calls = @ + 1, !.lastCall = <<"makeNode", v>>]
    /\ UNCHANGED <<input, phase, uf, states, task, chunk, pendingVerts>>

\* a caller inserts a node on v once build has returned
InsertNodeCall(v, segm) ==
    /\ phase = "done"
    /\ hist.calls < MaxCalls
    /\ insertNodeDefined(treeData_, v)
    /\ treeData_' = insertNode(treeData_, v, segm).td
    /\ hist' = [hist EXCEPT !.calls = @ + 1, !.lastCall = <<"insertNode", v, segm>>]
    /\ UNCHANGED <<input, phase, uf, states, task, chunk, pendingVerts>>

\* delNode, lines 1006-1011: a root gives up its first down arc
delNodeRoot(td, node) ==
    LET downArc == getNode(td, node).downArcs[1]
        downNode == getSuperArc(td, downArc).downNodeId
        t1 == [td EXCEPT !.nodes[downNode + 1].upArcs = RemoveFirst(@, downArc)]
    IN [t1 EXCEPT !.nodes[node + 1].downArcs = <<>>]

\* delNode, lines 1013-1046: a node with an up arc
delNodeNotRoot(td, node) ==
    IF Len(getNode(td, node).downArcs) < 2
    THEN LET upArc == getNode(td, node).upArcs[1]
             upId == getSuperArc(td, upArc).upNodeId
             t1 == [td EXCEPT !.nodes[upId + 1].downArcs = RemoveFirst(@, upArc)]
             t2 == [t1 EXCEPT !.nodes[node + 1].upArcs = <<>>]
         IN IF getNode(t2, node).downArcs # <<>>
            THEN LET downArc == getNode(t2, node).downArcs[1]
                     t3 == [t2 EXCEPT !.superArcs[downArc + 1].upNodeId = upId]
                     t4 == [t3 EXCEPT !.nodes[upId + 1].downArcs = Append(@, downArc)]
                     t5 == [t4 EXCEPT !.nodes[node + 1].downArcs = <<>>]
                 IN [t5 EXCEPT !.superArcs[downArc + 1].region =
                                   @ \o getSuperArc(t5, upArc).region]
            ELSE t2
    ELSE td

\* delNode with the test of lines 997-1004 only for a root without down arc:
\* a root with several down arcs gives up the first
delNodeSeveral(td, node) ==
    IF getNode(td, node).upArcs = <<>>
    THEN IF getNode(td, node).downArcs = <<>> THEN td ELSE delNodeRoot(td, node)
    ELSE delNodeNotRoot(td, node)

\* the calls of delNode that read only what exists: the node exists, and
\* the first up arc of a node that is reattached is closed
delNodeDefined(td, node) ==
    /\ node >= 0 /\ node < getNumberOfNodes(td)
    /\ (getNode(td, node).upArcs # <<>> /\ Len(getNode(td, node).downArcs) < 2) =>
           getSuperArc(td, getNode(td, node).upArcs[1]).upNodeId # nullNodes

\* MergeTree::delNode
delNode(td, node) ==
    IF getNode(td, node).upArcs = <<>>
    THEN IF Len(getNode(td, node).downArcs) # 1 THEN td ELSE delNodeRoot(td, node)
    ELSE delNodeNotRoot(td, node)

\* a caller deletes node n once build has returned
DelNodeCall(n) ==
    /\ phase = "done"
    /\ hist.calls < MaxCalls
    /\ delNodeDefined(treeData_, n)
    /\ treeData_' = delNode(treeData_, n)
    /\ hist' = [hist EXCEPT !.calls = @ + 1, !.lastCall = <<"delNode", n>>]
    /\ UNCHANGED <<input, phase, uf, states, task, chunk, pendingVerts>>

\* the ids a caller tries for an element of a store of nb elements: the
\* first one, the one before it and the one past the last
IdsTried(nb) == {-1, 0, nb}

\* a caller opens an arc on node n once build has returned
OpenSuperArcCall(n) ==
    /\ phase = "done"
    /\ hist.calls < MaxCalls
    /\ LET r == openSuperArc(treeData_, n)
       IN /\ treeData_' = r.td
          /\ hist' = [hist EXCEPT !.calls = @ + 1, !.lastCall = <<"openSuperArc", n, r.id>>]
    /\ UNCHANGED <<input, phase, uf, states, task, chunk, pendingVerts>>

\* a caller closes arc a on node n once build has returned
CloseSuperArcCall(a, n) ==
    /\ phase = "done"
    /\ hist.calls < MaxCalls
    /\ treeData_' = closeSuperArc(treeData_, a, n)
    /\ hist' = [hist EXCEPT !.calls = @ + 1, !.lastCall = <<"closeSuperArc", a, n>>]
    /\ UNCHANGED <<input, phase, uf, states, task, chunk, pendingVerts>>

\* ----------------------------------------------------------- specification
Next ==
    \/ \E c \in DOMAIN chunk : PrecomputeVertex(c)
    \/ PrecomputeEnd
    \/ LaunchTask
    \/ \E t \in Tasks : ProcessTaskStart(t)
    \/ \E t \in Tasks : ProcessTaskNext(t)
    \/ \E t \in Tasks : PropageNeighbor(t)
    \/ \E t \in Tasks : PropageCapture(t)
    \/ \E t \in Tasks : PublishUF(t)
    \/ \E t \in Tasks : RegularVertex(t)
    \/ \E t \in Tasks : OpenNode(t)
    \/ \E t \in Tasks : ReadActiveTasks(t)
    \/ \E t \in Tasks : CloseAndMerge(t)
    \/ \E t \in Tasks : ContinueFromSaddle(t)
    \/ \E t \in Tasks : StopAtSaddle(t)
    \/ \E t \in Tasks : CloseRoot(t)
    \/ LeavesEnd
    \/ TrunkBackBone
    \/ \E c \in DOMAIN chunk : TrunkChunkVertex(c)
    \/ \E c \in DOMAIN chunk : TrunkChunkFlush(c)
    \/ TrunkEnd
    \/ SegmentSizes
    \/ \E c \in DOMAIN chunk : FillVertex(c)
    \/ SegmentEnd
    \/ \E v \in -1 .. scalars_.size : MakeNodeCall(v)
    \/ \E v \in Verts, segm \in BOOLEAN : InsertNodeCall(v, segm)
    \/ \E n \in IdsTried(getNumberOfNodes(treeData_)) : OpenSuperArcCall(n)
    \/ \E a \in IdsTried(getNumberOfSuperArcs(treeData_)),
          n \in IdsTried(getNumberOfNodes(treeData_)) : CloseSuperArcCall(a, n)
    \/ \E n \in 0 .. getNumberOfNodes(treeData_) - 1 : DelNodeCall(n)

Spec == Init /\ [][Next]_vars

\* a step of leaf task t other than the closing of a saddle
TaskStep(t) ==
    \/ ProcessTaskStart(t)
    \/ ProcessTaskNext(t)
    \/ PropageNeighbor(t)
    \/ PropageCapture(t)
    \/ PublishUF(t)
    \/ RegularVertex(t)
    \/ OpenNode(t)
    \/ ReadActiveTasks(t)
    \/ ContinueFromSaddle(t)
    \/ StopAtSaddle(t)
    \/ CloseRoot(t)

\* a step of build other than the closing of a saddle
BuildStep ==
    \/ \E c \in DOMAIN chunk : PrecomputeVertex(c)
    \/ PrecomputeEnd
    \/ LaunchTask
    \/ \E t \in Tasks : TaskStep(t)
    \/ LeavesEnd
    \/ \E c \in DOMAIN chunk : TrunkChunkVertex(c)
    \/ \E c \in DOMAIN chunk : TrunkChunkFlush(c)
    \/ TrunkEnd
    \/ SegmentSizes
    \/ \E c \in DOMAIN chunk : FillVertex(c)
    \/ SegmentEnd

\* the closing of a saddle, by a task or by the trunk; these two steps test
\* nothing but the position of the one that takes them
ClosingStep == TrunkBackBone \/ \E t \in Tasks : CloseAndMerge(t)

ClosingReady == phase = "trunk" \/ \E t \in Tasks : task[t].pc = "merge"

\* the scheduler leaves no ready step of build aside for ever
SpecFair ==
    /\ Init
    /\ [][Next]_vars
    /\ WF_vars(BuildStep)
    /\ ([]<>(~ClosingReady) \/ []<><<ClosingStep>>_vars)

\* build on the mesh where three fronts meet on one saddle: one chunk per
\* data-parallel loop
InitThree ==
    \E tt \in {"Join", "Split"} :
        InitWith(ThreeWellList[2], tt, ThreeWellList[2].n + 1)

SpecThree == InitThree /\ [][Next]_vars

\* build of the join tree of the chain with scalars 0 2 1 3 0
InitChain == InitWith(ThreeWellList[1], "Join", ThreeWellList[1].n + 1)

SpecChain == InitChain /\ [][Next]_vars

\* the arcs (ids) that go from the node on d to the node on u
arcsOfPair(td, d, u) ==
    {a \in 0 .. getNumberOfSuperArcs(td) - 1 :
        /\ getNode(td, getSuperArc(td, a).downNodeId).vertexId = d
        /\ getSuperArc(td, a).upNodeId # nullNodes
        /\ getNode(td, getSuperArc(td, a).upNodeId).vertexId = u}

\* a tree up to the renaming of node and arc ids: its leaf vertices, the
\* vertices of its saddles (two down arcs or more), of its roots (no up arc)
\* and of its roots list, how many arcs join each pair of vertices and the
\* vertices in their regions, and how many arcs are left open
treeOfVertices(td) ==
    LET N == 0 .. getNumberOfNodes(td) - 1
        A == 0 .. getNumberOfSuperArcs(td) - 1
        vert(n) == getNode(td, n).vertexId
        V == {vert(n) : n \in N}
    IN [leaves |-> {vert(td.leaves[i]) : i \in DOMAIN td.leaves},
        saddles |-> {vert(n) : n \in {m \in N : Len(getNode(td, m).downArcs) >= 2}},
        roots |-> {vert(n) : n \in {m \in N : getNode(td, m).upArcs = <<>>}},
        rootsList |-> {vert(td.roots[i]) : i \in DOMAIN td.roots},
        nodes |-> [v \in V |-> Cardinality({n \in N : vert(n) = v})],
        arcs |-> [p \in V \X V |-> Cardinality(arcsOfPair(td, p[1], p[2]))],
        regions |-> [p \in V \X V |->
                       UNION {Range(getSuperArc(td, a).region) : a \in arcsOfPair(td, p[1], p[2])}],
        open |-> Cardinality({a \in A : getSuperArc(td, a).upNodeId = nullNodes})]

\* the scalars of -f: the order of f reversed
reversed(sc) ==
    [size |-> sc.size,
     mirrorVertices |-> [v \in DOMAIN sc.mirrorVertices |-> sc.size - 1 - sc.mirrorVertices[v]],
     sortedVertices |-> [i \in DOMAIN sc.sortedVertices |-> sc.sortedVertices[sc.size - 1 - i]]]

\* the caller keeps the join tree built for f and builds the split tree of -f
\* on the same mesh
BuildSplitOfReversed ==
    /\ phase = "done"
    /\ hist.calls = 0
    /\ hist.first = <<"none">>
    /\ treeType = "Join"
    /\ scalars_' = reversed(scalars_)
    /\ treeType' = "Split"
    /\ phase' = "precompute"
    /\ treeData_' = EmptyTreeData
    /\ uf' = [v \in Verts |-> NoUF]
    /\ states' = [v \in Verts |-> [vertex |-> nullVertex, propagation |-> EmptyHeap, live |-> FALSE]]
    /\ task' = <<>>
    /\ chunk' = ChunksOf(scalars_.size)
    /\ pendingVerts' = <<>>
    /\ hist' = [NoHist EXCEPT !.first = <<"join", treeOfVertices(treeData_),
                                           [tasks |-> task, pending |-> pendingVerts]>>]
    /\ UNCHANGED <<mesh_, chunkSize>>

NextRoundTrip == Next \/ BuildSplitOfReversed

InitJoin ==
    \E i \in 1 .. MeshCount, cs \in 2 .. MaxChunkSize : InitWith(MeshList[i], "Join", cs)

\* build of the join tree of f, then of the split tree of -f
SpecRoundTrip == InitJoin /\ [][NextRoundTrip]_vars

\* ------------------------------------------------------- tree-store calls
\* A caller drives the tree store of a constructed tree by hand, without
\* build: at most MaxStoreCalls calls.
MaxStoreCalls == 5

StoreReady == phase = "precompute" /\ hist.calls < MaxStoreCalls

\* makeNode(v, term)
StoreMakeNode(v, term) ==
    /\ StoreReady
    /\ treeData_' = makeNode(treeData_, v, term).td
    /\ hist' = [hist EXCEPT !.calls = @ + 1, !.lastCall = <<"makeNode", v, term>>]
    /\ UNCHANGED <<input, phase, uf, states, task, chunk, pendingVerts>>

\* makeSuperArc(d, u) between two nodes of the store
StoreMakeSuperArc(d, u) ==
    /\ StoreReady
    /\ treeData_' = makeSuperArc(treeData_, d, u).td
    /\ hist' = [hist EXCEPT !.calls = @ + 1, !.lastCall = <<"makeSuperArc", d, u>>]
    /\ UNCHANGED <<input, phase, uf, states, task, chunk, pendingVerts>>

\* updateCorrespondingArc(v, a): a vertex that nothing holds goes to arc a
StoreUpdateCorrespondingArc(v, a) ==
    /\ StoreReady
    /\ isCorrespondingNull(treeData_, v)
    /\ treeData_' = updateCorrespondingArc(treeData_, v, a)
    /\ hist' = [hist EXCEPT !.calls = @ + 1, !.lastCall = <<"updateCorrespondingArc", v, a>>]
    /\ UNCHANGED <<input, phase, uf, states, task, chunk, pendingVerts>>

\* insertNode on v
StoreInsertNode(v, segm) ==
    /\ StoreReady
    /\ insertNodeDefined(treeData_, v)
    /\ treeData_' = insertNode(treeData_, v, segm).td
    /\ hist' = [hist EXCEPT !.calls = @ + 1, !.lastCall = <<"insertNode", v, segm>>]
    /\ UNCHANGED <<input, phase, uf, states, task, chunk, pendingVerts>>

NextStore ==
    \/ \E v \in Verts, term \in Verts \cup {nullVertex} : StoreMakeNode(v, term)
    \/ \E d, u \in 0 .. getNumberOfNodes(treeData_) - 1 : StoreMakeSuperArc(d, u)
    \/ \E v \in Verts, a \in 0 .. getNumberOfSuperArcs(treeData_) - 1 :
          StoreUpdateCorrespondingArc(v, a)
    \/ \E v \in Verts, segm \in BOOLEAN : StoreInsertNode(v, segm)

InitStore == InitWith(MeshList[1], "Join", 2)

SpecStore == InitStore /\ [][NextStore]_vars

\* ------------------------------------------------------------------ claims
\* build has returned and no tree-store call has been made on its tree
Built == phase = "done" /\ hist.calls = 0

\* the leaf tasks are all over
LeavesDone == phase \notin {"precompute", "leaves"}

NodeVertices == {treeData_.nodes[i].vertexId : i \in DOMAIN treeData_.nodes}

\* how many times v is listed in the region of arc a (a position of superArcs)
timesInRegion(a, v) ==
    Cardinality({i \in DOMAIN treeData_.superArcs[a].region :
                    treeData_.superArcs[a].region[i] = v})

\* how many times v is listed in the regions of all the arcs
timesInRegions(v) ==
    SeqSum([a \in DOMAIN treeData_.superArcs |-> timesInRegion(a, v)])

regionSizes == SeqSum([a \in DOMAIN treeData_.superArcs |-> Len(treeData_.superArcs[a].region)])

\* C1: after build(true), every vertex is the vertex of a node or is listed
\* once in the region of exactly one arc, never both; the region sizes plus
\* the number of node vertices add up to the number of vertices; no segment
\* was written past its end.
C1_Partition ==
    Built =>
        /\ \A v \in Verts :
            \/ v \in NodeVertices /\ timesInRegions(v) = 0
            \/ v \notin NodeVertices /\ timesInRegions(v) = 1
        /\ regionSizes + Cardinality(NodeVertices) = scalars_.size
        /\ hist.ub = {}

\* a built split tree where the trunk assigned vertices and arcs have regions
C1_Witness ==
    /\ Built
    /\ ~isJT
    /\ pendingVerts # <<>>
    /\ regionSizes >= 2
    /\ \E a \in DOMAIN treeData_.superArcs : treeData_.superArcs[a].region = <<>>

\* some task returned through the sole-survivor branch
HandedOff == \E t \in Tasks : task[t].outcome = "trunk"

\* C2 as stated: when the leaf tasks are over, every vertex at which a front
\* arrived as at a saddle has had exactly one arrival with isLast = true.
C2_ExactlyOneLast ==
    LeavesDone =>
        \A v \in Verts : hist.nbSaddle[v] > 0 => hist.nbLast[v] = 1

\* C2: at every moment at most one arrival at a saddle has obtained isLast =
\* true; when the leaf tasks are over, a saddle reached by a front has had
\* exactly one such arrival, unless a task handed off to the trunk before the
\* other fronts of that saddle arrived: then nobody was last there, its
\* valence is still positive and it is left opened for the trunk.
C2_AtMostOneLast ==
    /\ \A v \in Verts : hist.nbLast[v] <= 1
    /\ LeavesDone =>
          \A v \in Verts :
              hist.nbSaddle[v] > 0 /\ hist.nbLast[v] = 0 =>
                  /\ HandedOff
                  /\ treeData_.openedNodes[v] = 1
                  /\ treeData_.valences[v] > 0

\* two fronts arrived at one saddle and one of them was last, while another
\* saddle was reached by a front and nobody was last there
C2_Witness ==
    /\ LeavesDone
    /\ \E v \in Verts : hist.nbSaddle[v] >= 2 /\ hist.nbLast[v] = 1
    /\ \E w \in Verts : hist.nbSaddle[w] > 0 /\ hist.nbLast[w] = 0

\* the tree up to the renaming of node and arc ids: the arcs as (down vertex,
\* up vertex) pairs, the leaf vertices, the vertices of the roots list, and
\* the arc (as a pair) or "node" each vertex is attributed to
vertexOfNode(n) == IF n = nullNodes THEN nullVertex ELSE getNode(treeData_, n).vertexId

arcAsPair(a) ==
    <<vertexOfNode(getSuperArc(treeData_, a).downNodeId),
      vertexOfNode(getSuperArc(treeData_, a).upNodeId)>>

FinalArcs == {arcAsPair(a - 1) : a \in DOMAIN treeData_.superArcs}

FinalLeaves == {vertexOfNode(treeData_.leaves[i]) : i \in DOMAIN treeData_.leaves}

FinalRoots == {vertexOfNode(treeData_.roots[i]) : i \in DOMAIN treeData_.roots}

FinalAttribution ==
    [v \in Verts |->
        IF isCorrespondingArc(treeData_, v)
        THEN <<"arc", arcAsPair(getCorrespondingSuperArcId(treeData_, v))>>
        ELSE <<treeData_.vert2tree[v][1]>>]

FinalTree ==
    [arcs |-> FinalArcs, leaves |-> FinalLeaves, roots |-> FinalRoots,
     attribution |-> FinalAttribution]

\* what build makes of the chain with scalars 0 2 1 3 0 (join tree) when each
\* leaf task runs to its return before the next one is launched
ChainTree ==
    [arcs |-> {<<0, 1>>, <<2, 1>>, <<1, 3>>, <<4, 3>>, <<3, 3>>},
     leaves |-> {0, 2, 4},
     roots |-> {},
     attribution |-> [v \in 0 .. 4 |-> <<"node">>]]

\* C3: for a fixed mesh and a fixed order, every interleaving of the leaf
\* tasks yields the same final tree up to renaming (same arcs as vertex pairs,
\* same leaves, same vertices in the roots list, same attribution): on the
\* chain, every run ends with the tree of the run without interleaving.
C3_SameTree == Built => FinalTree = ChainTree

\* a run that ends with that tree, its last arrival handing off to the trunk
C3_Witness == Built /\ FinalTree = ChainTree /\ HandedOff

\* arc a (an id) goes from a node to a node on a vertex higher in sweep order
monotoneArc(a) ==
    /\ getSuperArc(treeData_, a).upNodeId # nullNodes
    /\ vertLower(arcAsPair(a)[1], arcAsPair(a)[2])

\* C4: after build, the vertex of the down node of every super-arc is strictly
\* lower in sweep order than the vertex of its up node, whether the arc was
\* closed at a saddle, at a root by a drained task, or by the trunk.
C4_Monotone ==
    Built => \A a \in 0 .. getNumberOfSuperArcs(treeData_) - 1 : monotoneArc(a)

\* a built tree with a saddle all of whose arcs are monotone
C4_Witness ==
    /\ Built
    /\ getNumberOfSuperArcs(treeData_) >= 3
    /\ \A a \in 0 .. getNumberOfSuperArcs(treeData_) - 1 : monotoneArc(a)

\* C5 as stated: throughout the sweep no valence is negative, the value
\* reaches 0 exactly once per vertex (at most once at any moment, and once
\* when the leaf tasks are over for a vertex that has lower neighbours), and
\* the decrement that brings it to 0 is one for which propage reports isLast.
C5_NonNegative ==
    /\ \A v \in Verts : treeData_.valences[v] >= 0
    /\ \A v \in Verts : hist.zeroHits[v] <= 1
    /\ ~hist.zeroNotLast
    /\ LeavesDone =>
          \A v \in Verts : lowerCount(v, 0) > 0 => hist.zeroHits[v] = 1

\* C5: the value reaches 0 at most once per vertex, by the decrement of an
\* arrival for which propage reports isLast, and an arrival that reports
\* isLast leaves it at 0; it is negative only on a saddle whose last arrival
\* has been seen and which carries a node: the winner that continues from the
\* saddle visits it again and subtracts all its lower neighbours from 0.
C5_Valences ==
    /\ \A v \in Verts :
          \/ treeData_.valences[v] >= 0
          \/ /\ treeData_.valences[v] = 0 - lowerCount(v, 0)
             /\ hist.nbLast[v] = 1
             /\ isCorrespondingNode(treeData_, v)
    /\ \A v \in Verts : hist.zeroHits[v] <= 1
    /\ ~hist.zeroNotLast
    /\ \A t \in Tasks :
          task[t].pc = "publish" /\ task[t].isLast =>
              treeData_.valences[task[t].currentVert] = 0

\* the winner of a saddle has visited it again: its valence is below 0
C5_Witness ==
    \E v \in Verts : treeData_.valences[v] < 0 /\ hist.zeroHits[v] = 1 /\ hist.nbLast[v] = 1

\* precompute has returned and nothing else has run yet
AfterPrecompute == phase \in {"leaves", "trunk"} /\ task = <<>>

\* the vertices without a neighbour lower in sweep order
LocalExtrema ==
    {v \in Verts : \A i \in DOMAIN mesh_[v] : ~vertLower(mesh_[v][i], v)}

\* C6: after precompute on an empty tree, valences[v] is the number of
\* neighbours of v lower in sweep order, a node exists on v exactly when that
\* number is zero (one node, which vert2tree designates), and the leaves list
\* holds exactly those nodes once each: as many leaves as local extrema.
C6_Precompute ==
    AfterPrecompute =>
        /\ \A v \in Verts :
              treeData_.valences[v] =
                  Cardinality({i \in DOMAIN mesh_[v] : vertLower(mesh_[v][i], v)})
        /\ \A v \in Verts :
              /\ v \in LocalExtrema <=> isCorrespondingNode(treeData_, v)
              /\ Cardinality({n \in DOMAIN treeData_.nodes : treeData_.nodes[n].vertexId = v})
                     = IF v \in LocalExtrema THEN 1 ELSE 0
              /\ isCorrespondingNode(treeData_, v) =>
                     vertexOfNode(getCorrespondingNodeId(treeData_, v)) = v
        /\ Len(treeData_.leaves) = getNumberOfNodes(treeData_)
        /\ Range(treeData_.leaves) = 0 .. getNumberOfNodes(treeData_) - 1
        /\ Len(treeData_.leaves) = Cardinality(LocalExtrema)

\* precompute, run by several chunk tasks on a split tree, found two leaves
\* and a vertex with two lower neighbours
C6_Witness ==
    /\ AfterPrecompute
    /\ ~isJT
    /\ getChunkCount(scalars_.size) >= 2
    /\ Len(treeData_.leaves) >= 2
    /\ \E v \in Verts : treeData_.valences[v] >= 2

\* the union-find representatives
Representatives == {r \in Verts : uf[r].parent = r}

\* how many times arc a (an id) is in the open-arc list of r
timesInOpenList(r, a) ==
    Cardinality({j \in DOMAIN uf[r].openedArcs : uf[r].openedArcs[j] = a})

\* the union-find elements that have arc a in their open-arc list
holdersOf(a) == {r \in Verts : timesInOpenList(r, a) > 0}

\* C7: between task steps, each super-arc opened and not yet closed is in the
\* open-arc list of exactly one representative (once), and an arc that is
\* closed (its up node is set), at a saddle, at a root by a drained task or in
\* the trunk, is in no open-arc list.
C7_OpenArcs ==
    \A a \in 0 .. getNumberOfSuperArcs(treeData_) - 1 :
        IF getSuperArc(treeData_, a).upNodeId = nullNodes
        THEN /\ \E r \in Representatives : holdersOf(a) = {r}
             /\ \A r \in holdersOf(a) : timesInOpenList(r, a) = 1
        ELSE holdersOf(a) = {}

\* two open arcs, each in the list of its own representative, and a closed arc
\* in no list
C7_Witness ==
    /\ C7_OpenArcs
    /\ \E a, b \in 0 .. getNumberOfSuperArcs(treeData_) - 1 :
          /\ a # b
          /\ getSuperArc(treeData_, a).upNodeId = nullNodes
          /\ getSuperArc(treeData_, b).upNodeId = nullNodes
          /\ holdersOf(a) # holdersOf(b)
    /\ \E c \in 0 .. getNumberOfSuperArcs(treeData_) - 1 :
          getSuperArc(treeData_, c).upNodeId # nullNodes

\* the nodes (positions of the node store) whose vertex is v
nodesOn(v) == {n \in DOMAIN treeData_.nodes : treeData_.nodes[n].vertexId = v}

\* C8: after any sequence of tree-store operations (what build performs,
\* makeNode, insertNode), whenever vert2tree[v] designates a node, exactly one
\* node of the node store has v as its vertex and it is the designated one;
\* no vertex carries two nodes.
C8_OneNodePerVertex ==
    \A v \in Verts :
        /\ Cardinality(nodesOn(v)) <= 1
        /\ isCorrespondingNode(treeData_, v) =>
               nodesOn(v) = {getCorrespondingNodeId(treeData_, v) + 1}

\* insertNode has split an arc on one of its vertices, and every vertex
\* carries at most one node
C8_Witness ==
    /\ C8_OneNodePerVertex
    /\ hist.lastCall[1] = "insertNode"
    /\ getNumberOfNodes(treeData_) >= 3

\* a vert2tree entry moves forward from old to new: it stays, or goes from nil
\* to an arc or a node, or from an arc to a node
movesForward(old, new) ==
    \/ new = old
    \/ old[1] = "nil" /\ new[1] \in {"arc", "node"}
    \/ old[1] = "arc" /\ new[1] = "node"

\* C9: during build every step moves each vert2tree entry forward only: never
\* back to nil, never from a node to an arc, never from an arc to another arc.
C9_Forward ==
    [][phase # "done" =>
          \A v \in Verts : movesForward(treeData_.vert2tree[v], treeData_.vert2tree'[v])]_vars

\* a drained task closed its arc on a vertex it had first put on that arc (nil,
\* arc, node), while other vertices are on arcs
C9_Witness ==
    /\ Built
    /\ \E t \in Tasks :
          /\ task[t].outcome = "root"
          /\ task[t].currentVert # task[t].startVert
          /\ isCorrespondingNode(treeData_, task[t].currentVert)
    /\ \E v \in Verts : isCorrespondingArc(treeData_, v)

\* the vertices listed in the region of an arc whose ends are on vertices d, u
regionOfPair(d, u) ==
    UNION {Range(getSuperArc(treeData_, a).region) :
              a \in {b \in 0 .. getNumberOfSuperArcs(treeData_) - 1 : arcAsPair(b) = <<d, u>>}}

\* C10 as stated: on the chain with scalars 0 2 1 3 0 the join tree has the
\* leaves 0 and 4, one saddle on vertex 2, one root on vertex 3, and the arcs
\* 0 -> 2, 4 -> 2 and 2 -> 3, the last with vertex 1 in its region.
C10_TwoLeaves ==
    Built =>
        /\ FinalLeaves = {0, 4}
        /\ NodeVertices = {0, 4, 2, 3}
        /\ FinalRoots = {3}
        /\ FinalArcs = {<<0, 2>>, <<4, 2>>, <<2, 3>>}
        /\ 1 \in regionOfPair(2, 3)

\* C10: on that chain vertex 2 (scalar 1, between 2 and 3) is a third local
\* minimum: the join tree built has the leaves 0, 2 and 4, a node on every
\* vertex (saddles on 1 and 3), the arcs 0 -> 1, 2 -> 1, 1 -> 3 and 4 -> 3
\* among its arcs, no vertex in any region, and no root other than 3 in the
\* roots list.
C10_ThreeLeaves ==
    Built =>
        /\ FinalLeaves = {0, 2, 4}
        /\ NodeVertices = {0, 1, 2, 3, 4}
        /\ {<<0, 1>>, <<2, 1>>, <<1, 3>>, <<4, 3>>} \subseteq FinalArcs
        /\ \A a \in DOMAIN treeData_.superArcs : treeData_.superArcs[a].region = <<>>
        /\ FinalRoots \subseteq {3}

\* the chain is built, a continuing task has closed the root on vertex 3
C10_Witness ==
    /\ Built
    /\ FinalLeaves = {0, 2, 4}
    /\ FinalRoots = {3}
    /\ \E t \in Tasks : task[t].outcome = "root" /\ task[t].d = 2

\* the vertex the trunk puts its root on: the last one of the sweep
lastOfSweep == scalars_.sortedVertices[IF isJT THEN scalars_.size - 1 ELSE 0]

\* the nodes (ids) without an up arc
RootNodes == {n \in 0 .. getNumberOfNodes(treeData_) - 1 : getNode(treeData_, n).upArcs = <<>>}

\* one leaf on the only extremum, one arc from it to a node on the last vertex
\* of the sweep, the arc and its ends holding every vertex
oneLeafOneArc ==
    /\ Len(treeData_.leaves) = 1
    /\ {vertexOfNode(treeData_.leaves[1])} = LocalExtrema
    /\ getNumberOfSuperArcs(treeData_) = 1
    /\ getSuperArc(treeData_, 0).downNodeId = treeData_.leaves[1]
    /\ arcAsPair(0)[2] = lastOfSweep
    /\ Range(getSuperArc(treeData_, 0).region) \cup {arcAsPair(0)[1], arcAsPair(0)[2]} = Verts
    /\ Len(getSuperArc(treeData_, 0).region) + 2 = scalars_.size

\* C11: when the field has exactly one local extremum in sweep order, build
\* yields one leaf on it, one root (a node without up arc) on the last vertex
\* of the sweep, and a single super-arc from the leaf to the root whose region
\* and two end nodes hold every vertex once.
C11_OneArc ==
    (Built /\ Cardinality(LocalExtrema) = 1) =>
        /\ oneLeafOneArc
        /\ {vertexOfNode(n) : n \in RootNodes} = {lastOfSweep}
        /\ Cardinality(RootNodes) = 1

\* the same on the meshes of two vertices or more, where the leaf and the last
\* vertex of the sweep are two vertices
OneArcTwoVertices ==
    (Built /\ Cardinality(LocalExtrema) = 1 /\ scalars_.size >= 2) =>
        /\ oneLeafOneArc
        /\ {vertexOfNode(n) : n \in RootNodes} = {lastOfSweep}
        /\ Cardinality(RootNodes) = 1
        /\ getNumberOfNodes(treeData_) = 2

\* the chain with scalars 3 1 2 4 5 is built as a join tree by several chunk
\* tasks: leaf on vertex 1, root on vertex 4, vertices 2, 0, 3 in the region
C11_Witness ==
    /\ Built
    /\ scalars_.size = 5
    /\ Cardinality(LocalExtrema) = 1
    /\ FinalLeaves = {1}
    /\ FinalArcs = {<<1, 4>>}
    /\ getChunkCount(scalars_.size) >= 2
    /\ getSuperArc(treeData_, 0).region = <<2, 0, 3>>

\* two trees with the same leaf, saddle and root vertices, the same pairs of
\* vertices joined by an arc, and the same vertices in the regions of each pair
sameTree(T1, T2) ==
    /\ T1.leaves = T2.leaves
    /\ T1.saddles = T2.saddles
    /\ T1.roots = T2.roots
    /\ DOMAIN T1.arcs = DOMAIN T2.arcs
    /\ \A p \in DOMAIN T1.arcs : (T1.arcs[p] > 0) = (T2.arcs[p] > 0)
    /\ T1.regions = T2.regions
    /\ T1.open = T2.open

\* how the leaf tasks ended and what they left to the trunk
howItRan == [tasks |-> task, pending |-> pendingVerts]

\* C12: the split tree built for -f (the order of f reversed) is the join
\* tree built for f up to the renaming of node and arc ids: same leaf, saddle
\* and root vertices, same arcs as vertex pairs, same vertices in the regions.
C12_RoundTrip ==
    (Built /\ hist.first # <<"none">>) => sameTree(treeOfVertices(treeData_), hist.first[2])

\* the two builds give the same tree, arc for arc, whenever their leaf tasks
\* ended the same way and left the same saddles to the trunk
RoundTripSameRun ==
    (Built /\ hist.first # <<"none">> /\ howItRan = hist.first[3]) =>
        treeOfVertices(treeData_) = hist.first[2]

\* a split tree with a saddle and a non-empty region, built after the join
\* tree of the reversed field, and equal to it
C12_Witness ==
    /\ Built
    /\ hist.first # <<"none">>
    /\ sameTree(treeOfVertices(treeData_), hist.first[2])
    /\ treeOfVertices(treeData_).saddles # {}
    /\ \E a \in DOMAIN treeData_.superArcs : treeData_.superArcs[a].region # <<>>

\* the vertices of L that a path inside L joins to one of S
RECURSIVE grow(_, _)
grow(S, L) ==
    LET T == S \cup {u \in L : \E w \in S : \E i \in DOMAIN mesh_[w] : mesh_[w][i] = u}
    IN IF T = S THEN S ELSE grow(T, L)

\* the vertices strictly below v in sweep order
below(v) == {u \in Verts : vertLower(u, v)}

\* the connected component of u in the sub-level set strictly below v
componentBelow(u, v) == grow({u}, below(v))

\* v has two lower neighbours in different components of what lies below it
onSaddle(v) ==
    \E i, j \in DOMAIN mesh_[v] :
        /\ mesh_[v][i] \in below(v)
        /\ mesh_[v][j] \in below(v)
        /\ componentBelow(mesh_[v][i], v) # componentBelow(mesh_[v][j], v)

LeafNodes == Range(treeData_.leaves)

\* every node that is neither a leaf nor a root has two incident arcs or more
InternalDegree ==
    \A n \in 0 .. getNumberOfNodes(treeData_) - 1 :
        (n \notin LeafNodes /\ n \notin RootNodes) =>
            Len(getNode(treeData_, n).downArcs) + Len(getNode(treeData_, n).upArcs) >= 2

\* every node with two down arcs or more is on a saddle of the field
DownArcsOnSaddle ==
    \A n \in 0 .. getNumberOfNodes(treeData_) - 1 :
        Len(getNode(treeData_, n).downArcs) >= 2 => onSaddle(getNode(treeData_, n).vertexId)

\* C13: after build, every node that is neither a leaf nor a root has at least
\* two incident arcs, and every node with two or more down arcs sits on a
\* vertex with two lower-in-sweep neighbours in different connected components
\* of the sub-level set strictly below it.
C13_Saddles == Built => (InternalDegree /\ DownArcsOnSaddle)

\* the first half alone
DegreeAfterBuild == Built => InternalDegree

\* a built tree with a node of two down arcs and an up arc, every node of two
\* down arcs or more on a saddle
C13_Witness ==
    /\ Built
    /\ InternalDegree
    /\ DownArcsOnSaddle
    /\ \E n \in 0 .. getNumberOfNodes(treeData_) - 1 :
          /\ Len(getNode(treeData_, n).downArcs) >= 2
          /\ getNode(treeData_, n).upArcs # <<>>
          /\ n \notin LeafNodes

\* every leaf task has returned with one of its outcomes
AllEnded ==
    /\ Len(task) = Len(treeData_.leaves) \/ Len(treeData_.leaves) = 1
    /\ \A t \in Tasks : task[t].pc = "done" /\ task[t].outcome \in {"stopped", "trunk", "root"}

\* a task that has not returned can take its next step whatever the others do
NoTaskWaits ==
    \A t \in Tasks : task[t].pc \notin {"done", "merge"} => ENABLED TaskStep(t)

\* C14: under fair scheduling build runs to completion: every leaf task
\* returns with one of its outcomes (stopped at a saddle where it is not last,
\* handed off to the trunk, closed a root), no task waits for another, and the
\* trunk and the segmentation then finish.
C14_Completes == [](NoTaskWaits) /\ <>(phase = "done" /\ AllEnded)

\* build is over, its tasks ended in each of the three ways
C14_Witness ==
    /\ Built
    /\ AllEnded
    /\ \E t \in Tasks : task[t].outcome = "stopped"
    /\ \E t \in Tasks : task[t].outcome = "trunk" \/ task[t].outcome = "root"
    /\ getChunkCount(scalars_.size) >= 2

\* ------------------------------------------------------------------- C15
EmptyMesh == scalars_.size = 0

EmptyTree ==
    /\ treeData_.nodes = <<>>
    /\ treeData_.superArcs = <<>>
    /\ treeData_.leaves = <<>>
    /\ treeData_.roots = <<>>
    /\ treeData_.segments_ = <<>>

\* a step of a chunk task on one element of the vertex range
ElementStep ==
    \E c \in DOMAIN chunk :
        PrecomputeVertex(c) \/ TrunkChunkVertex(c) \/ TrunkChunkFlush(c) \/ FillVertex(c)

\* C15: build on a mesh with no vertices ends, and all along the tree has no
\* node, no super-arc, no leaf and no root, no leaf task is launched, no
\* pending vertex is found, no chunk task of precompute, trunk or segmentation
\* takes a step on an element, and no read or write falls outside a container.
C15_EmptyMesh ==
    /\ []((EmptyMesh /\ hist.calls = 0) =>
            (EmptyTree /\ task = <<>> /\ pendingVerts = <<>> /\ hist.ub = {}))
    /\ [][EmptyMesh => ~ElementStep]_vars
    /\ (EmptyMesh ~> phase = "done")

\* the build of the empty mesh is over: every phase was passed, nothing was made
C15_Witness ==
    /\ EmptyMesh
    /\ Built
    /\ EmptyTree
    /\ chunk = ChunksOf(0)
    /\ DOMAIN chunk = {0}
    /\ task = <<>>

\* ------------------------------------------------------------------- C16
\* the terms a caller may pass to makeNode
Terms == Verts \cup {nullVertex}

\* makeNode on a vertex that vert2tree designates as a node: the store is
\* unchanged and the id is the one of a node of that vertex
makeNodeFindsNode ==
    \A v \in Verts, term \in Terms :
        isCorrespondingNode(treeData_, v) =>
            LET r == makeNode(treeData_, v, term)
            IN /\ r.td = treeData_
               /\ r.id = getCorrespondingNodeId(treeData_, v)
               /\ r.id + 1 \in DOMAIN treeData_.nodes
               /\ getNode(treeData_, r.id).vertexId = v

\* a call of makeNode on v by a caller, and the call on v that would follow
makeNodeTwice ==
    \A v \in Verts :
        MakeNodeCall(v) =>
            LET r1 == makeNode(treeData_, v, nullVertex)
                r2 == makeNode(treeData_', v, nullVertex)
                made == IF isCorrespondingNode(treeData_, v) THEN 0 ELSE 1
            IN /\ r2.id = r1.id
               /\ r2.td = treeData_'
               /\ Len(treeData_'.nodes) = Len(treeData_.nodes) + made
               /\ Len(r2.td.nodes) = Len(treeData_.nodes) + made
               /\ made = 0 => treeData_' = treeData_

\* C16: makeNode on a vertex that already carries a node returns the id of
\* that node and changes nothing (node count, fields of the node, vert2tree),
\* in every tree store that build and the calls after it produce; a call of
\* makeNode on a vertex followed by a second one on the same vertex returns
\* the same id twice and adds one node if the vertex had none, none otherwise.
C16_MakeNodeOnce == [](makeNodeFindsNode) /\ [][makeNodeTwice]_vars

\* every vertex that carries a node is designated as a node by vert2tree
CarriedIsDesignated ==
    \A n \in DOMAIN treeData_.nodes :
        isCorrespondingNode(treeData_, treeData_.nodes[n].vertexId)

\* a caller has called makeNode on a vertex whose node was there before the
\* call: it is not the last node of the store
C16_Witness ==
    /\ hist.lastCall[1] = "makeNode"
    /\ hist.lastCall[2] \in Verts
    /\ isCorrespondingNode(treeData_, hist.lastCall[2])
    /\ getCorrespondingNodeId(treeData_, hist.lastCall[2]) < getNumberOfNodes(treeData_) - 1
    /\ makeNodeFindsNode

\* ------------------------------------------------------------------- C17
nodeExists(td, n) == n >= 0 /\ n < getNumberOfNodes(td)

arcExists(td, a) == a >= 0 /\ a < getNumberOfSuperArcs(td)

\* the node store, the arc store and vert2tree
stores(td) == <<td.nodes, td.superArcs, td.vert2tree>>

\* the three operations, applied to the tree store of this state with ids
\* that name no element
guardsOnStore ==
    /\ \A v \in {-2, -1, scalars_.size, scalars_.size + 1} :
          LET r == makeNode(treeData_, v, nullVertex)
          IN r.td = treeData_ /\ r.id < 0
    /\ \A n \in {-2, -1, getNumberOfNodes(treeData_), getNumberOfNodes(treeData_) + 1} :
          LET r == openSuperArc(treeData_, n)
          IN r.td = treeData_ /\ r.id < 0
    /\ \A a \in -2 .. getNumberOfSuperArcs(treeData_) + 1,
          n \in -2 .. getNumberOfNodes(treeData_) + 1 :
          (~arcExists(treeData_, a) \/ ~nodeExists(treeData_, n)) =>
              closeSuperArc(treeData_, a, n) = treeData_

\* a call by a caller with an id that names no element
guardsOnCall ==
    /\ \A v \in {-1, scalars_.size} :
          MakeNodeCall(v) =>
              /\ stores(treeData_') = stores(treeData_)
              /\ makeNode(treeData_, v, nullVertex).id < 0
    /\ \A n \in IdsTried(getNumberOfNodes(treeData_)) :
          (OpenSuperArcCall(n) /\ ~nodeExists(treeData_, n)) =>
              /\ stores(treeData_') = stores(treeData_)
              /\ hist'.lastCall[3] < 0
    /\ \A a \in IdsTried(getNumberOfSuperArcs(treeData_)),
          n \in IdsTried(getNumberOfNodes(treeData_)) :
          (CloseSuperArcCall(a, n)
             /\ (~arcExists(treeData_, a) \/ ~nodeExists(treeData_, n))) =>
              stores(treeData_') = stores(treeData_)

\* C17: with the guards compiled in, openSuperArc on a node id that names no
\* node, closeSuperArc on an arc id that names no arc or on a node id that
\* names no node, and makeNode on a vertex outside [0, size) leave the node
\* store, the arc store and vert2tree as they were, and openSuperArc and
\* makeNode return a negative value, in every tree store build and the calls
\* after it produce and on every such call a caller makes.
C17_Guards == [](guardsOnStore) /\ [][guardsOnCall]_vars

\* a caller has called closeSuperArc on an arc of the tree and a node id past
\* the end of the node store, and the arc kept the up node it had
C17_Witness ==
    /\ hist.lastCall[1] = "closeSuperArc"
    /\ arcExists(treeData_, hist.lastCall[2])
    /\ hist.lastCall[3] = getNumberOfNodes(treeData_)
    /\ getNumberOfNodes(treeData_) >= 3
    /\ nodeExists(treeData_, getSuperArc(treeData_, hist.lastCall[2]).upNodeId)

\* ------------------------------------------------------------------- C18
\* node n (an id) has no up arc and more than one down arc, or has an up arc
\* and two or more down arcs
keptByDelNode(td, n) ==
    \/ getNode(td, n).upArcs = <<>> /\ Len(getNode(td, n).downArcs) > 1
    \/ getNode(td, n).upArcs # <<>> /\ Len(getNode(td, n).downArcs) >= 2

\* delNode applied to every such node of the tree store of this state
delNodeKeepsStore ==
    \A n \in 0 .. getNumberOfNodes(treeData_) - 1 :
        keptByDelNode(treeData_, n) => delNode(treeData_, n) = treeData_

\* a call of delNode by a caller on such a node
delNodeKeepsOnCall ==
    \A n \in 0 .. getNumberOfNodes(treeData_) - 1 :
        (DelNodeCall(n) /\ keptByDelNode(treeData_, n)) =>
            /\ treeData_'.nodes = treeData_.nodes
            /\ treeData_'.superArcs = treeData_.superArcs
            /\ treeData_' = treeData_

DelNodeOnSaddleCalled ==
    /\ hist.lastCall[1] = "delNode"
    /\ getNode(treeData_, hist.lastCall[2]).upArcs # <<>>
    /\ Len(getNode(treeData_, hist.lastCall[2]).downArcs) >= 2

\* ------------------------------------------------------------------- C19
\* a front stopped on v: a task found v a saddle in propage
frontStoppedOn(v) == hist.nbSaddle[v] > 0

\* closeAndMergeOnSaddle was executed on v by a leaf task
mergedOn(v) == v \in hist.merged

openedExactly ==
    \A v \in Verts :
        (treeData_.openedNodes[v] # 0) <=> (frontStoppedOn(v) /\ ~mergedOn(v))

\* C19: once the leaf tasks are over, openedNodes[v] is set exactly for the
\* vertices on which a front stopped at a saddle and closeAndMergeOnSaddle
\* was never executed; the bit of a saddle whose last-arrival task merged and
\* went on is cleared, in whatever order the tasks wrote it.
C19_OpenedNodes == (LeavesDone /\ task # <<>>) => openedExactly

\* the same when no task that was not last wrote the bit after the
\* last-arrival task had cleared it
OpenedInOrder == (LeavesDone /\ task # <<>> /\ hist.lateOpen = {}) => openedExactly

\* a saddle where a front stopped and no task merged has its bit set
StoppedIsOpened ==
    (LeavesDone /\ task # <<>>) =>
        \A v \in Verts : (frontStoppedOn(v) /\ ~mergedOn(v)) => treeData_.openedNodes[v] # 0

\* the leaf tasks are over, one saddle was merged by its last arrival and has
\* its bit cleared, another was left to the trunk with its bit set
C19_Witness ==
    /\ phase = "trunk"
    /\ task # <<>>
    /\ openedExactly
    /\ \E v \in Verts : mergedOn(v) /\ treeData_.openedNodes[v] = 0
    /\ \E v \in Verts : frontStoppedOn(v) /\ ~mergedOn(v) /\ treeData_.openedNodes[v] = 1

\* after leaves() on a mesh with one leaf, where no leaf task runs, the bit
\* of the leaf is set
OneLeafOpened ==
    (LeavesDone /\ task = <<>> /\ ~EmptyMesh) =>
        /\ Len(treeData_.leaves) = 1
        /\ \A v \in Verts :
              (treeData_.openedNodes[v] # 0) <=> (v = getNode(treeData_, 0).vertexId)

\* ------------------------------------------------------------------- C20
\* the tasks that returned through the sole-survivor branch (lines 319-322)
SoleSurvivors == {t \in Tasks : task[t].outcome = "trunk"}

\* the others have all been launched and have ended on a saddle where they
\* were not last
othersStopped(t) ==
    /\ Len(task) = Len(treeData_.leaves)
    /\ \A u \in Tasks \ {t} : task[u].pc = "done" /\ task[u].outcome = "stopped"

\* the step of a last arrival that reads activeTasks: it returns only on a
\* read of 1, when the others are over, and goes to the merge otherwise
readDecides ==
    \A t \in Tasks :
        task[t].pc = "readActive" /\ task'[t] # task[t] =>
            IF treeData_.activeTasks = 1
            THEN /\ task'[t].pc = "done" /\ task'[t].outcome = "trunk"
                 /\ othersStopped(t)
                 /\ treeData_' = treeData_
            ELSE /\ treeData_.activeTasks > 1
                 /\ task'[t].pc = "merge"
                 /\ task'[t].outcome = "running"

\* a task that left the read for the merge executes closeAndMergeOnSaddle on
\* its saddle, clears the bit and starts again from the saddle, one level down
mergesAndContinues ==
    \A t \in Tasks :
        /\ (task[t].pc = "merge" /\ task'[t] # task[t]) =>
               /\ task'[t].pc = "clearOpen"
               /\ task[t].currentVert \in hist'.merged
        /\ (task[t].pc = "clearOpen" /\ task'[t] # task[t]) =>
               /\ task'[t].pc = "start"
               /\ task'[t].startVert = task[t].currentVert
               /\ task'[t].d = task[t].d + 1

\* once a task has returned through the sole-survivor branch no task takes
\* a step, and a task that has ended stays as it is
noWriteAfter ==
    /\ SoleSurvivors # {} => task' = task
    /\ \A t \in Tasks : task[t].pc = "done" => task'[t] = task[t]

\* C20: a task returns through the sole-survivor branch only on a read of
\* activeTasks = 1, and then every other leaf task has been launched and has
\* ended on a saddle where it was not last; from then on no task takes a
\* step; at most one task of a build takes this branch; a last arrival that
\* reads activeTasks > 1 executes closeAndMergeOnSaddle and starts again from
\* the saddle.
C20_SoleSurvivor ==
    /\ [](Cardinality(SoleSurvivors) <= 1)
    /\ [](\A t \in SoleSurvivors : othersStopped(t))
    /\ [][readDecides /\ mergesAndContinues /\ noWriteAfter]_vars

\* three leaf tasks: one last arrival read activeTasks > 1, merged and went
\* on, and the same task later returned through the sole-survivor branch on a
\* second saddle, the other two having stopped
C20_Witness ==
    /\ Len(task) = 3
    /\ \E t \in SoleSurvivors :
          /\ task[t].d > 0
          /\ othersStopped(t)
          /\ task[t].currentVert \notin hist.merged
    /\ hist.merged # {}
    /\ treeData_.activeTasks = 1

\* ------------------------------------------------------------------- C21
\* the neighbours of s that are lower in the sweep
lowerNeighbours(s) ==
    {getVertexNeighbor(s, n) : n \in {m \in 0 .. getVertexNeighborNumber(s) - 1 :
                                          vertLower(getVertexNeighbor(s, m), s)}}

\* the representatives of s and of its lower neighbours in this state
classesOn(s) ==
    {find(uf, treeData_.ufs[x]) :
        x \in {y \in lowerNeighbours(s) \cup {s} : treeData_.ufs[y] # nullUF}}

\* the arcs in the open list of one of these classes
openArcsOn(s) == UNION {Range(uf[r].openedArcs) : r \in classesOn(s)}

\* what closeAndMergeOnSaddle leaves on saddle s, read in the next state
mergedOnSaddle(s) ==
    /\ treeData_'.ufs[s] # nullUF
    /\ LET r == find(uf', treeData_'.ufs[s])
       IN /\ \A x \in lowerNeighbours(s) :
                treeData_'.ufs[x] # nullUF /\ find(uf', treeData_'.ufs[x]) = r
          /\ isCorrespondingNode(treeData_', s)
          /\ \A a \in openArcsOn(s) :
                getSuperArc(treeData_', a).upNodeId = getCorrespondingNodeId(treeData_', s)
          /\ uf'[r].openedArcs = <<>>
          /\ Len(uf'[r].states) = 1
          /\ uf'[r].extrema = s

\* C21: after closeAndMergeOnSaddle(s), every lower-in-sweep neighbour of s
\* is in the union-find class of s, every arc that was in the open list of
\* one of the classes merged has the node on s as its up node, the open list
\* of the representative is empty, it has a single state (front queue) and
\* its extremum is s.
C21_MergeOnSaddle ==
    [][\A t \in Tasks : CloseAndMerge(t) => mergedOnSaddle(task[t].currentVert)]_vars

\* a task has just merged on a saddle: two classes with one open arc each
\* became one, both arcs end on the node of the saddle
C21_Witness ==
    \E t \in Tasks :
        /\ task[t].pc = "clearOpen"
        /\ LET s == task[t].currentVert
               r == find(uf, treeData_.ufs[s])
           IN /\ Cardinality(lowerNeighbours(s)) >= 2
              /\ uf[r].openedArcs = <<>>
              /\ Len(getNode(treeData_, getCorrespondingNodeId(treeData_, s)).downArcs) >= 2
              /\ \A x \in lowerNeighbours(s) : find(uf, treeData_.ufs[x]) = r

\* ------------------------------------------------------------------- C22
\* the tasks that are about to call closeAndMergeOnSaddle
Merging == {t \in Tasks : task[t].pc = "merge"}

\* C22: whenever a task is about to call closeAndMergeOnSaddle(s), ufs[s] and
\* ufs[n] of every lower-in-sweep neighbour n of s are published, and no call
\* of closeAndMergeOnSaddle has read an empty ufs entry, in every
\* interleaving of the tasks.
C22_Published ==
    /\ \A t \in Merging :
          /\ treeData_.ufs[task[t].currentVert] # nullUF
          /\ \A n \in lowerNeighbours(task[t].currentVert) : treeData_.ufs[n] # nullUF
    /\ hist.ub \cap {"ufs[neigh] is null in closeAndMergeOnSaddle",
                     "ufs[saddleVert] is null", "closeArcsUF on a null uf"} = {}

\* a task is about to merge on a saddle with two lower neighbours of two
\* classes while another task, not last on that saddle, has not yet written
\* openedNodes
C22_Witness ==
    \E t \in Merging :
        /\ Cardinality(lowerNeighbours(task[t].currentVert)) >= 2
        /\ Cardinality({find(uf, treeData_.ufs[n]) :
                           n \in lowerNeighbours(task[t].currentVert)}) >= 2
        /\ \E u \in Tasks \ {t} :
              task[u].pc = "saddle" /\ task[u].currentVert = task[t].currentVert

\* ------------------------------------------------------------------- C23
\* how many times x is listed in the sequence s
timesIn(s, x) == Cardinality({i \in DOMAIN s : s[i] = x})

\* arc a (an id) has an up node
arcClosed(a) == nodeExists(treeData_, getSuperArc(treeData_, a).upNodeId)

\* arc a is listed once in the down arcs of its up node and once in the up
\* arcs of its down node
arcListedOnce(a) ==
    /\ nodeExists(treeData_, getSuperArc(treeData_, a).downNodeId)
    /\ timesIn(getNode(treeData_, getSuperArc(treeData_, a).upNodeId).downArcs, a) = 1
    /\ timesIn(getNode(treeData_, getSuperArc(treeData_, a).downNodeId).upArcs, a) = 1

\* C23: after build no super-arc is left open: every arc of the arc store has
\* an up node, is listed in the down arcs of that node and in the up arcs of
\* its down node, and exactly once in each.
C23_NoOpenArc ==
    Built => \A a \in 0 .. getNumberOfSuperArcs(treeData_) - 1 :
                 arcClosed(a) /\ arcListedOnce(a)

\* after build every arc has an up node
AllArcsClosed ==
    Built => \A a \in 0 .. getNumberOfSuperArcs(treeData_) - 1 : arcClosed(a)

\* after build an arc is in the down arcs of no node but its up node
NoStaleDownArc ==
    Built => \A a \in 0 .. getNumberOfSuperArcs(treeData_) - 1 :
                 \A n \in 0 .. getNumberOfNodes(treeData_) - 1 :
                     timesIn(getNode(treeData_, n).downArcs, a) > 0 =>
                         getSuperArc(treeData_, a).upNodeId = n

\* a built tree of four arcs, two of them made by the trunk, all closed and
\* listed once at both ends
C23_Witness ==
    /\ Built
    /\ getNumberOfSuperArcs(treeData_) >= 4
    /\ pendingVerts # <<>>
    /\ \A a \in 0 .. getNumberOfSuperArcs(treeData_) - 1 : arcClosed(a) /\ arcListedOnce(a)

\* the same in the runs where no task that was not last wrote openedNodes
\* after the last arrival had cleared it
NoOpenArcInOrder ==
    (Built /\ hist.lateOpen = {}) =>
        \A a \in 0 .. getNumberOfSuperArcs(treeData_) - 1 : arcClosed(a) /\ arcListedOnce(a)

\* ------------------------------------------------------------------- C24
\* the step of task t that closes its arc on a root: the arc gets as up node
\* a node on the vertex it visited last, and that node is appended once to
\* the roots list
closedOnLastVisited(t) ==
    LET a == task[t].currentArc
        closeVert == getSuperArc(treeData_, a).lastVisited
        n == getSuperArc(treeData_', a).upNodeId
    IN /\ closeVert \in Verts
       /\ nodeExists(treeData_', n)
       /\ getNode(treeData_', n).vertexId = closeVert
       /\ isCorrespondingNode(treeData_', closeVert)
       /\ getCorrespondingNodeId(treeData_', closeVert) = n
       /\ timesIn(getNode(treeData_', n).downArcs, a) = 1
       /\ treeData_'.roots = Append(treeData_.roots, n)

\* C24: a task whose queue drains without a saddle closes its current arc on
\* a node on the last-visited vertex of that arc and appends that node once
\* to the roots list; no other step of precompute and of the leaf phase
\* changes the roots list.
C24_CloseRoot ==
    [][/\ \A t \in Tasks : CloseRoot(t) => closedOnLastVisited(t)
       /\ (phase \in {"precompute", "leaves"} /\ ~(\E t \in Tasks : CloseRoot(t))) =>
              treeData_'.roots = treeData_.roots]_vars

\* a task that started on a saddle after a merge drained its queue two
\* vertices higher and closed there: the node of the root is the last of the
\* store and the only entry of the roots list
C24_Witness ==
    \E t \in Tasks :
        /\ task[t].outcome = "root"
        /\ task[t].d > 0
        /\ phase = "leaves"
        /\ Len(treeData_.roots) = 1
        /\ treeData_.roots[1] = getNumberOfNodes(treeData_) - 1
        /\ getNode(treeData_, treeData_.roots[1]).vertexId # task[t].startVert
        /\ getNode(treeData_, treeData_.roots[1]).downArcs # <<>>

\* ------------------------------------------------------------------- C25
\* the roots list holds the nodes without up arc, each once
rootsAreRootNodes ==
    /\ Range(treeData_.roots) = RootNodes
    /\ \A n \in RootNodes : timesIn(treeData_.roots, n) = 1

\* C25: after build the roots list contains exactly the nodes that have no
\* up super-arc, each once: when the last saddle was finished by a task that
\* went on, when it was handed off to the trunk, and when the only leaf made
\* leaves() launch no task.
C25_Roots == Built => rootsAreRootNodes

\* the same for the builds in which the trunk found no pending vertex
RootsWithoutTrunk == (Built /\ pendingVerts = <<>>) => rootsAreRootNodes

\* the same for the builds in which the trunk closed the tree
RootsAfterTrunk == (Built /\ pendingVerts # <<>>) => rootsAreRootNodes

\* the roots list is never written by the trunk: after a build with a pending
\* vertex and no late write it holds what the leaf tasks appended, nothing
RootsEmptyAfterHandOff ==
    (Built /\ pendingVerts # <<>> /\ hist.lateOpen = {}) => treeData_.roots = <<>>

\* a build of two components where each task drained its queue: two roots,
\* both listed once
C25_Witness ==
    /\ Built
    /\ rootsAreRootNodes
    /\ Len(treeData_.roots) = 2
    /\ \A t \in Tasks : task[t].outcome = "root"

\* after the build of a mesh of several vertices with a single leaf the tree
\* has a node without up arc and the roots list is empty
OneLeafNoRoots ==
    (Built /\ Len(treeData_.leaves) = 1 /\ scalars_.size > 1) =>
        /\ task = <<>>
        /\ RootNodes # {}
        /\ treeData_.roots = <<>>

\* ------------------------------------------------------------------- C26
\* the vertices with their openedNodes bit set
OpenedVerts == {v \in Verts : treeData_.openedNodes[v] # 0}

\* the node (id) that vert2tree designates on v after the step
nodeAfter(v) == getCorrespondingNodeId(treeData_', v)

\* what the sequential part of the trunk leaves, read over its step: pv is
\* the pending list it built, first the id of the first arc it made
trunkMade(pv, first) ==
    /\ Range(pv) = OpenedVerts
    /\ Len(pv) = Cardinality(OpenedVerts)
    /\ \A i, j \in DOMAIN pv : i < j => vertLower(pv[i], pv[j])
    /\ \A i \in DOMAIN pv : isCorrespondingNode(treeData_', pv[i])
    /\ getNumberOfSuperArcs(treeData_') = first + Len(pv)
    /\ \A a \in 0 .. first - 1 :
          getSuperArc(treeData_', a).downNodeId = getSuperArc(treeData_, a).downNodeId
    /\ \A i \in 1 .. Len(pv) - 1 :
          /\ getSuperArc(treeData_', first + i - 1).downNodeId = nodeAfter(pv[i])
          /\ getSuperArc(treeData_', first + i - 1).upNodeId = nodeAfter(pv[i + 1])
    /\ Len(pv) >= 1 =>
          /\ getSuperArc(treeData_', first + Len(pv) - 1).downNodeId = nodeAfter(pv[Len(pv)])
          /\ isCorrespondingNode(treeData_', lastOfSweep)
          /\ getSuperArc(treeData_', first + Len(pv) - 1).upNodeId = nodeAfter(lastOfSweep)
    /\ Len(pv) = 0 =>
          /\ treeData_'.superArcs = treeData_.superArcs
          /\ treeData_'.nodes = treeData_.nodes

\* C26: the trunk takes the opened vertices in increasing sweep order, every
\* one of them has a node afterwards, and for n >= 1 of them it adds exactly n
\* arcs to the arc store: one from the node of each pending vertex to the
\* node of the next, and a last one from the node of the last pending vertex
\* to a node on the last vertex of the sweep (last of the sorted array for a
\* join tree, first for a split tree); with none it adds no arc and no node.
C26_Trunk ==
    [][TrunkBackBone => trunkMade(pendingVerts', getNumberOfSuperArcs(treeData_))]_vars

\* the trunk has closed two pending saddles of a join tree: its two arcs are
\* the last of the store, one between the saddles, one from the second to
\* the node on the maximum
C26_Witness ==
    /\ phase = "trunkChunks"
    /\ isJT
    /\ Len(pendingVerts) = 2
    /\ vertLower(pendingVerts[1], pendingVerts[2])
    /\ LET nb == getNumberOfSuperArcs(treeData_)
       IN /\ getSuperArc(treeData_, nb - 2).downNodeId =
                 getCorrespondingNodeId(treeData_, pendingVerts[1])
          /\ getSuperArc(treeData_, nb - 2).upNodeId =
                 getCorrespondingNodeId(treeData_, pendingVerts[2])
          /\ getSuperArc(treeData_, nb - 1).upNodeId =
                 getCorrespondingNodeId(treeData_, lastOfSweep)

\* ------------------------------------------------------------------- C27
\* the vertices that vert2tree gives to arc a (an id)
ownedBy(a) ==
    {v \in Verts : isCorrespondingArc(treeData_, v)
                      /\ getCorrespondingSuperArcId(treeData_, v) = a}

\* the slots of the segment of arc a written so far
writtenSlots(a) == 1 .. Min2(treeData_.posSegm[a + 1], Len(treeData_.segments_[a + 1]))

\* the fill pass is over
FillOver == phase = "fill" /\ \A c \in DOMAIN chunk : chunk[c].v >= chunk[c].hi

\* the segment of arc a during the fill pass
segmentFits(a) ==
    LET seg == treeData_.segments_[a + 1]
    IN /\ Len(seg) = Max2(0, getSuperArc(treeData_, a).nbSeen - 1)
       /\ Cardinality(ownedBy(a)) = Len(seg)
       /\ treeData_.posSegm[a + 1] <= Len(seg)
       /\ \A i \in writtenSlots(a) : seg[i] \in ownedBy(a)
       /\ \A i, j \in writtenSlots(a) : seg[i] = seg[j] => i = j
       /\ \A i \in DOMAIN seg : i \notin writtenSlots(a) => seg[i] = nullVertex
       /\ FillOver => treeData_.posSegm[a + 1] = Len(seg)

\* C27: in buildSegmentation, for every super-arc the number of vertices that
\* vert2tree gives to the arc equals the size allocated for its segment,
\* max(0, visit count - 1); every index reserved in the fill pass is inside
\* the segment, no slot is written twice, and when the chunk tasks are over
\* every slot is written, for every chunk size and trunk chunk boundary.
C27_SegmentSizes ==
    phase = "fill" =>
        /\ \A a \in 0 .. getNumberOfSuperArcs(treeData_) - 1 : segmentFits(a)
        /\ "write past the end of a segment" \notin hist.ub

\* the fill pass of a split tree with a trunk is over, run by two chunk tasks
\* or more: some arc has a segment of three vertices, all written
C27_Witness ==
    /\ FillOver
    /\ ~isJT
    /\ Cardinality(DOMAIN chunk) >= 2
    /\ pendingVerts # <<>>
    /\ \E a \in 0 .. getNumberOfSuperArcs(treeData_) - 1 :
          /\ Len(treeData_.segments_[a + 1]) = 3
          /\ segmentFits(a)

\* ------------------------------------------------------------------- C28
\* s without its entries x
without(s, x) == SelectSeq(s, LAMBDA y : y # x)

\* the step is a call of insertNode on vertex x, which lies on an arc
insertsOnArc(x, segm) == InsertNodeCall(x, segm) /\ isCorrespondingArc(treeData_, x)

\* what insertNode leaves of the arc a of x (from d to u), of the nodes and of
\* the other arcs
splitOn(x) ==
    LET a == getCorrespondingSuperArcId(treeData_, x)
        d == getSuperArc(treeData_, a).downNodeId
        u == getSuperArc(treeData_, a).upNodeId
        n == getNumberOfNodes(treeData_)
        a2 == getNumberOfSuperArcs(treeData_)
    IN /\ getNumberOfNodes(treeData_') = n + 1
       /\ getNumberOfSuperArcs(treeData_') = a2 + 1
       /\ getNode(treeData_', n).vertexId = x
       /\ isCorrespondingNode(treeData_', x)
       /\ getCorrespondingNodeId(treeData_', x) = n
       /\ getSuperArc(treeData_', a2).downNodeId = n
       /\ getSuperArc(treeData_', a2).upNodeId = u
       /\ getSuperArc(treeData_', a).downNodeId = d
       /\ getSuperArc(treeData_', a).upNodeId = n
       /\ timesIn(getNode(treeData_', u).downArcs, a2) = 1
       /\ timesIn(getNode(treeData_', u).downArcs, a) = 0
       /\ without(getNode(treeData_', u).downArcs, a2)
             = without(getNode(treeData_, u).downArcs, a)
       /\ getNode(treeData_', u).upArcs = getNode(treeData_, u).upArcs
       /\ getNode(treeData_', n).downArcs = <<a>>
       /\ getNode(treeData_', n).upArcs = <<a2>>
       /\ getNode(treeData_', d).downArcs = getNode(treeData_, d).downArcs
       /\ getNode(treeData_', d).upArcs = getNode(treeData_, d).upArcs
       /\ \A m \in 0 .. n - 1 : m # u => getNode(treeData_', m) = getNode(treeData_, m)
       /\ \A b \in 0 .. a2 - 1 : b # a => getSuperArc(treeData_', b) = getSuperArc(treeData_, b)
       /\ \A y \in Verts : y # x => treeData_'.vert2tree[y] = treeData_.vert2tree[y]

\* C28: insertNode on a vertex x lying on arc a from node d to node u makes
\* one node n on x and one arc a' from n to u, makes a go from d to n, puts
\* a' in the down list of u in place of a, gives n the down list {a} and the
\* up list {a'}, and leaves the lists of d, every other node and every other
\* arc as they were.
C28_InsertNode ==
    [][\A x \in Verts : \A segm \in BOOLEAN : insertsOnArc(x, segm) => splitOn(x)]_vars

\* insertNode has split an arc between two different nodes: the new node is
\* the last one, on the vertex of the call, between its one down arc and the
\* new arc, which is the last one
C28_Witness ==
    /\ hist.calls = 1
    /\ hist.lastCall[1] = "insertNode"
    /\ LET n == getNumberOfNodes(treeData_) - 1
           a2 == getNumberOfSuperArcs(treeData_) - 1
       IN /\ getNode(treeData_, n).vertexId = hist.lastCall[2]
          /\ getNode(treeData_, n).upArcs = <<a2>>
          /\ Len(getNode(treeData_, n).downArcs) = 1
          /\ getSuperArc(treeData_, a2).downNodeId = n
          /\ LET a == getNode(treeData_, n).downArcs[1]
             IN /\ getSuperArc(treeData_, a).upNodeId = n
                /\ getSuperArc(treeData_, a).downNodeId # getSuperArc(treeData_, a2).upNodeId


\* the arc of x goes between two different nodes and is listed once in the
\* down list of its up node
onProperArc(x) ==
    LET a == getCorrespondingSuperArcId(treeData_, x)
    IN /\ getSuperArc(treeData_, a).downNodeId # getSuperArc(treeData_, a).upNodeId
       /\ timesIn(getNode(treeData_, getSuperArc(treeData_, a).upNodeId).downArcs, a) = 1

\* insertNode splits as C28 says every arc that goes between two different
\* nodes and is listed once in its up node
InsertNodeOnProperArc ==
    [][\A x \in Verts : \A segm \in BOOLEAN :
          insertsOnArc(x, segm) /\ onProperArc(x) => splitOn(x)]_vars

\* the arcs that build makes before any call go between two different nodes
\* and are listed once in their up node, as far as they carry a vertex
BuiltArcsProper ==
    phase = "done" /\ hist.calls = 0 =>
        \A x \in Verts : isCorrespondingArc(treeData_, x) /\ insertNodeDefined(treeData_, x)
                            => onProperArc(x)

\* ------------------------------------------------------------------- C29
\* the arc that insertNode on v splits (lines 930-944)
splitArc(v) ==
    IF isCorrespondingNode(treeData_, v)
    THEN LET up0 == getNode(treeData_, getCorrespondingNodeId(treeData_, v)).upArcs[1]
             rep == getSuperArc(treeData_, up0).replacant
         IN IF rep = nullSuperArc THEN up0 ELSE rep
    ELSE getCorrespondingSuperArcId(treeData_, v)

\* the value insertNode on v passes for its node (line 947)
originPassed(v) == getNode(treeData_, getSuperArc(treeData_, splitArc(v)).downNodeId).term

\* the step is a call of insertNode on v
insertNodeOn(v) ==
    \E segm \in BOOLEAN : InsertNodeCall(v, segm) \/ StoreInsertNode(v, segm)

\* the node that the step appends to the node store
nodeMade == getNode(treeData_', getNumberOfNodes(treeData_))

\* C29: the node that insertNode makes records the value insertNode passes
\* for it, the origin of the down node of the arc that is split: after the
\* call the origin of the new node is that value, not the default.
C29_Origin ==
    [][\A v \in Verts : insertNodeOn(v) => nodeMade.term = originPassed(v)]_vars

\* the node that insertNode makes has the default origin, whatever is passed
InsertedNodeHasDefault ==
    [][\A v \in Verts : insertNodeOn(v) =>
          /\ getNumberOfNodes(treeData_') = getNumberOfNodes(treeData_) + 1
          /\ nodeMade.vertexId = v
          /\ nodeMade.term = nullVertex]_vars

\* no node of the store has an origin
NoOrigin == \A i \in DOMAIN treeData_.nodes : treeData_.nodes[i].term = nullVertex

\* build gives no node an origin
BuildGivesNoOrigin == hist.calls = 0 => NoOrigin

\* insertNode has split, on a vertex that was on it, an arc whose down node
\* has an origin: the node made is the last one, between that arc and the
\* new arc
C29_Witness ==
    /\ hist.lastCall[1] = "insertNode"
    /\ LET n == getNumberOfNodes(treeData_) - 1
       IN /\ n >= 2
          /\ getNode(treeData_, n).vertexId = hist.lastCall[2]
          /\ Cardinality({i \in DOMAIN treeData_.nodes :
                             treeData_.nodes[i].vertexId = hist.lastCall[2]}) = 1
          /\ Len(getNode(treeData_, n).downArcs) = 1
          /\ LET a == getNode(treeData_, n).downArcs[1]
                 d == getSuperArc(treeData_, a).downNodeId
             IN /\ d # n
                /\ getNode(treeData_, d).term # nullVertex

====
